---- MODULE Spec2Model ----
(***************************************************************************)
(* A model of bazel-differrous: the impact analyzer (crates/core/src/      *)
(* impact.rs, models.rs) and the hash engine (crates/core/src/hash.rs).    *)
(*                                                                         *)
(* Strings are sequences of atoms.  An atom is one character, or an        *)
(* indivisible run of characters that contains none of the separators the  *)
(* code splits on ('#', '~', ':').  An Option is a sequence of length 0    *)
(* (None) or 1 (Some).  A map is a function whose DOMAIN is its key set.   *)
(***************************************************************************)
EXTENDS Integers, Sequences, FiniteSets, TLC

VARIABLES
    pc,             \* position of the running command
    start_hashes,   \* get_impacted_targets: parsed starting hashes
    final_hashes,   \* get_impacted_targets: parsed final hashes
    target_types,   \* Option<HashSet<String>>: the target-type filter
    dep_edges,      \* Option<DependencyEdges>: the dep-edges file, if given
    impacted,       \* Result<Vec<String>> of compute_impacted_targets
    kind_by_label,  \* compute_distances: label -> ImpactKind
    distances,      \* Result<Vec<ImpactedTargetDistance>> of compute_distances
    graph,          \* HashEngine::compute: the BazelGraph it is given
    config,         \* HashEngineConfig
    fs,             \* the file system the source hasher reads: path -> entry
    todo_sources,   \* indices of graph.sources the first loop has not reached
    todo_targets,   \* indices of graph.targets the second loop has not reached
    source_digests, \* HashMap<String, Vec<u8>>
    rule_digests,   \* HashMap<String, TargetDigest>
    results,        \* BTreeMap<String, TargetHashValue>
    writes,         \* how often each key of the two caches has been inserted
    output,         \* Result<GenerateHashesResult> of HashEngine::compute
    edit,           \* the change made to the inputs between two runs
    output_before,   \* Result<GenerateHashesResult> of the run after the change
    raw_hash,       \* the string handed to TargetHash::parse
    parsed,         \* Result<TargetHash> of TargetHash::parse
    args,           \* GenerateHashesArgs and the outcomes of the command's I/O
    out_file,       \* what the command has written to its hash output
    dep_file,       \* what the command has written to its dep-edges file
    exit_status,    \* the exit status of the command, None while it runs
    call,           \* the function called on its own, with its arguments
    ret             \* what that call returned

impact_vars == <<start_hashes, final_hashes, target_types, dep_edges,
                 impacted, kind_by_label, distances>>

hash_vars == <<graph, config, fs, todo_sources, todo_targets, source_digests,
               rule_digests, results, writes, output>>

change_vars == <<edit, output_before>>

parse_vars == <<raw_hash, parsed>>

cli_vars == <<args, out_file, dep_file, exit_status>>

call_vars == <<call, ret>>

aux_vars == <<change_vars, parse_vars, cli_vars, call_vars>>

vars == <<pc, impact_vars, hash_vars, aux_vars>>

-----------------------------------------------------------------------------
(* Options, results and maps                                               *)

None == <<>>

Some(v) == <<v>>

IsSome(o) == o # <<>>

Unwrap(o) == o[1]

Ok(v) == [ok |-> TRUE, val |-> v, err |-> ""]

Err(e) == [ok |-> FALSE, val |-> <<>>, err |-> e]

NotRun == [ok |-> FALSE, val |-> <<>>, err |-> "not run"]

EmptyMap == [k \in {} |-> <<>>]

Get(m, k) == IF k \in DOMAIN m THEN Some(m[k]) ELSE None

Insert(m, k, v) == [x \in DOMAIN m \cup {k} |-> IF x = k THEN v ELSE m[x]]

\* The insert counts w after one more `cache.insert(key, ..)`.
Counted(w, cache, key) ==
    Insert(w, <<cache, key>>,
           (IF <<cache, key>> \in DOMAIN w THEN w[<<cache, key>>] ELSE 0) + 1)

SetMin(S) == CHOOSE x \in S : \A y \in S : x <= y

\* The hash engine does not run in a get-impacted-targets command.
HashIdle ==
    /\ graph = <<>>
    /\ config = <<>>
    /\ fs = EmptyMap
    /\ todo_sources = {}
    /\ todo_targets = {}
    /\ source_digests = EmptyMap
    /\ rule_digests = EmptyMap
    /\ results = EmptyMap
    /\ writes = EmptyMap
    /\ output = NotRun

\* No function is called on its own.
CallIdle ==
    /\ call = <<>>
    /\ ret = NotRun

\* No second run, no call of the parser alone and no command line.
AuxIdle ==
    /\ edit = None
    /\ output_before = NotRun
    /\ raw_hash = <<>>
    /\ parsed = NotRun
    /\ args = <<>>
    /\ out_file = None
    /\ dep_file = None
    /\ exit_status = None
    /\ CallIdle

-----------------------------------------------------------------------------
(* Bounds of the model                                                     *)

\* The deepest nesting of calculate_distance calls the model follows.
MaxWalkDepth == 6

\* The longest dep list of one label, and the most dep edges of one dep-edges
\* file, among the inputs of the distance walk.
MaxDepLen == 2

MaxEdges == 3

-----------------------------------------------------------------------------
(* Strings                                                                 *)

\* The byte value of the first character of an atom (str::cmp is bytewise).
Ord(c) ==
    CASE c = "#" -> 35
      [] c = "+" -> 43
      [] c = "/" -> 47
      [] c = ":" -> 58
      [] c = "@" -> 64
      [] c = "a" -> 97
      [] c = "b" -> 98
      [] c = "w" -> 119
      [] c = "x" -> 120
      [] c = "y" -> 121
      [] c = "z" -> 122
      [] c = "~" -> 126

RECURSIVE StrCmp(_, _)
\* str::cmp: -1, 0 or 1 for Less, Equal, Greater.
StrCmp(a, b) ==
    IF a = <<>> /\ b = <<>> THEN 0
    ELSE IF a = <<>> THEN -1
    ELSE IF b = <<>> THEN 1
    ELSE IF Ord(Head(a)) < Ord(Head(b)) THEN -1
    ELSE IF Ord(Head(a)) > Ord(Head(b)) THEN 1
    ELSE StrCmp(Tail(a), Tail(b))

\* The index of the first occurrence of atom c in s, 0 if there is none.
Find(s, c) ==
    IF \E i \in 1..Len(s) : s[i] = c
    THEN SetMin({i \in 1..Len(s) : s[i] = c})
    ELSE 0

\* str::split_once
SplitOnce(s, c) ==
    LET i == Find(s, c) IN
    IF i = 0 THEN None
    ELSE Some(<<SubSeq(s, 1, i - 1), SubSeq(s, i + 1, Len(s))>>)

-----------------------------------------------------------------------------
(* models.rs                                                               *)

\* TargetHash::parse: None stands for the Err result.
Parse(raw) ==
    LET kindSplit == SplitOnce(raw, "#")
        target_type == IF IsSome(kindSplit) THEN Some(Unwrap(kindSplit)[1]) ELSE None
        remainder == IF IsSome(kindSplit) THEN Unwrap(kindSplit)[2] ELSE raw
        hashSplit == SplitOnce(remainder, "~")
        transitive_hash == IF IsSome(hashSplit) THEN Unwrap(hashSplit)[1] ELSE remainder
        direct_hash == IF IsSome(hashSplit) THEN Some(Unwrap(hashSplit)[2]) ELSE None
    IN  IF transitive_hash = <<>> THEN None
        ELSE Some([raw |-> raw,
                   transitive_hash |-> transitive_hash,
                   direct_hash |-> direct_hash,
                   target_type |-> target_type])

-----------------------------------------------------------------------------
(* impact.rs: compute_impacted_targets                                     *)

\* The iteration order of a BTreeSet<String>: ascending by str::cmp.
RECURSIVE SortedSeq(_)
SortedSeq(S) ==
    IF S = {} THEN <<>>
    ELSE LET m == CHOOSE x \in S : \A y \in S : StrCmp(x, y) <= 0
         IN  <<m>> \o SortedSeq(S \ {m})

\* Changed, comparing the transitive hashes in place of the raw strings.
ChangedByTransitiveHash(label, start, final) ==
    LET start_hash == Get(start, label)
        final_hash == Get(final, label)
    IN  IF IsSome(start_hash) /\ IsSome(final_hash)
        THEN Unwrap(start_hash).transitive_hash # Unwrap(final_hash).transitive_hash
        ELSE IsSome(start_hash) \/ IsSome(final_hash)

\* The `changed` match of compute_impacted_targets.
Changed(label, start, final) ==
    LET start_hash == Get(start, label)
        final_hash == Get(final, label)
    IN  IF IsSome(start_hash) /\ IsSome(final_hash)
        THEN Unwrap(start_hash).raw # Unwrap(final_hash).raw
        ELSE IsSome(start_hash) \/ IsSome(final_hash)

\* TargetHashForLabel, preferring the starting entry.
TargetHashForLabelStartFirst(label, start, final) ==
    IF IsSome(Get(start, label)) THEN Get(start, label) ELSE Get(final, label)

\* target_hash_for_label: the final entry, else the starting entry.
TargetHashForLabel(label, start, final) ==
    IF IsSome(Get(final, label)) THEN Get(final, label) ELSE Get(start, label)

\* target_type_for_label: the final entry's type, else the starting entry's.
TargetTypeForLabel(label, start, final) ==
    LET f == Get(final, label)
        s == Get(start, label)
    IN  IF IsSome(f) /\ IsSome(Unwrap(f).target_type) THEN Unwrap(f).target_type
        ELSE IF IsSome(s) THEN Unwrap(s).target_type
        ELSE None

\* Rank, with generated files before source files.
RankGeneratedFirst(value) ==
    IF value = Some(<<"GeneratedFile">>) THEN 0
    ELSE IF value = Some(<<"SourceFile">>) THEN 1
    ELSE IF value = Some(<<"Rule">>) THEN 2
    ELSE IF IsSome(value) THEN 3
    ELSE 4

\* The rank closure of compare_by_type_then_label.
Rank(value) ==
    IF value = Some(<<"SourceFile">>) THEN 0
    ELSE IF value = Some(<<"GeneratedFile">>) THEN 1
    ELSE IF value = Some(<<"Rule">>) THEN 2
    ELSE IF IsSome(value) THEN 3
    ELSE 4

\* compare_by_type_then_label: -1, 0 or 1.
CompareByTypeThenLabel(left, right, start, final) ==
    LET l == Rank(TargetTypeForLabel(left, start, final))
        r == Rank(TargetTypeForLabel(right, start, final))
    IN  IF l < r THEN -1
        ELSE IF l > r THEN 1
        ELSE StrCmp(left, right)

RECURSIVE InsertSorted(_, _, _, _)
InsertSorted(sorted, x, start, final) ==
    IF sorted = <<>> THEN <<x>>
    ELSE IF CompareByTypeThenLabel(x, sorted[Len(sorted)], start, final) >= 0
    THEN Append(sorted, x)
    ELSE Append(InsertSorted(SubSeq(sorted, 1, Len(sorted) - 1), x, start, final),
                sorted[Len(sorted)])

RECURSIVE SortBy(_, _, _)
\* slice::sort_by with compare_by_type_then_label (a stable sort).
SortBy(s, start, final) ==
    IF s = <<>> THEN <<>>
    ELSE InsertSorted(SortBy(SubSeq(s, 1, Len(s) - 1), start, final),
                      s[Len(s)], start, final)

RECURSIVE Dedup(_)
\* Vec::dedup: drops an element equal to the one before it.
Dedup(s) ==
    IF Len(s) <= 1 THEN s
    ELSE LET rest == Dedup(SubSeq(s, 1, Len(s) - 1))
         IN  IF s[Len(s)] = s[Len(s) - 1] THEN rest ELSE Append(rest, s[Len(s)])

\* The first loop of compute_impacted_targets, over the BTreeSet of all labels.
ChangedLabels(start, final) ==
    SelectSeq(SortedSeq(DOMAIN start \cup DOMAIN final),
              LAMBDA label : Changed(label, start, final))

RECURSIVE FilterByType(_, _, _, _)
\* The target-type loop of compute_impacted_targets: the first label whose hash
\* has no target type fails the whole call.
FilterByType(labels, allowed_types, start, final) ==
    IF labels = <<>> THEN Ok(<<>>)
    ELSE LET label == Head(labels)
             hash == TargetHashForLabel(label, start, final)
         IN  IF ~IsSome(hash) THEN Err("missing hash entry")
             ELSE IF ~IsSome(Unwrap(hash).target_type) THEN Err("no target type info")
             ELSE LET rest == FilterByType(Tail(labels), allowed_types, start, final)
                  IN  IF ~rest.ok THEN rest
                      ELSE IF Unwrap(Unwrap(hash).target_type) \in allowed_types
                      THEN Ok(<<label>> \o rest.val)
                      ELSE rest

ComputeImpactedTargetsOf(start, final, types) ==
    LET changed == ChangedLabels(start, final)
        filtered == IF IsSome(types)
                    THEN FilterByType(changed, Unwrap(types), start, final)
                    ELSE Ok(changed)
    IN  IF ~filtered.ok THEN filtered
        ELSE Ok(Dedup(SortBy(filtered.val, start, final)))

-----------------------------------------------------------------------------
(* impact.rs: compute_distances                                            *)

\* ClassifyImpact, taking two absent direct hashes for equal ones.
ClassifyImpactAbsentEqual(start_hash, final_hash) ==
    IF ~IsSome(start_hash) \/ ~IsSome(final_hash) THEN "Direct"
    ELSE IF Unwrap(start_hash).direct_hash = Unwrap(final_hash).direct_hash
    THEN "Indirect"
    ELSE "Direct"

\* classify_impact
ClassifyImpact(start_hash, final_hash) ==
    IF ~IsSome(start_hash) \/ ~IsSome(final_hash) THEN "Direct"
    ELSE LET start_direct == Unwrap(start_hash).direct_hash
             end_direct == Unwrap(final_hash).direct_hash
         IN  IF IsSome(start_direct) /\ IsSome(end_direct) /\ start_direct = end_direct
             THEN "Indirect"
             ELSE "Direct"

\* KindByLabel, classifying every changed label, those the type filter removed
\* included.
KindByLabelOfChanged(labels, start, final) ==
    [label \in {l \in DOMAIN start \cup DOMAIN final : Changed(l, start, final)} |->
        ClassifyImpact(Get(start, label), Get(final, label))]

\* The first loop of compute_distances.
KindByLabel(labels, start, final) ==
    [label \in {labels[i] : i \in 1..Len(labels)} |->
        ClassifyImpact(Get(start, label), Get(final, label))]

\* package_segment: the part of the label before its first ':'.
PackageSegment(label) ==
    LET i == Find(label, ":") IN
    IF i = 0 THEN label ELSE SubSeq(label, 1, i - 1)

\* The outcome of one calculate_distance call: the distance record, and the memo
\* and visiting set as the call leaves them.
WalkOk(dist, memo, visiting) ==
    [ok |-> TRUE, err |-> "", dist |-> dist, memo |-> memo, visiting |-> visiting]

WalkErr(e) ==
    [ok |-> FALSE, err |-> e, dist |-> <<>>, memo |-> EmptyMap, visiting |-> {}]

\* AlreadyVisiting, without the visiting set.
NeverVisiting(label, visiting) == FALSE

\* `!visiting.insert(label)`: the label is already being visited.
AlreadyVisiting(label, visiting) == label \in visiting

\* `!impacted_kinds.contains_key(dep)`: the dep is skipped.
SkipsDep(dep, kinds) == dep \notin DOMAIN kinds

\* `package_segment(label) != package_segment(dep)`
CrossesPackage(label, dep) == PackageSegment(label) # PackageSegment(dep)

\* The pair pushed on `distances` for one impacted dep.
DepPair(label, dep, dep_distance) ==
    <<dep_distance.target_distance + 1,
      dep_distance.package_distance + (IF CrossesPackage(label, dep) THEN 1 ELSE 0)>>

\* NoImpactedDeps, without the emptiness test.
NeverNoImpactedDeps(acc) == FALSE

\* `distances.is_empty()`
NoImpactedDeps(acc) == acc = <<>>

\* Iterator::min().unwrap_or(0)
MinOr0(S) == IF S = {} THEN 0 ELSE SetMin(S)

\* TargetDistanceOf, taking the first impacted dep in place of the nearest.
TargetDistanceOfFirst(acc) == IF acc = <<>> THEN 0 ELSE acc[1][1]

TargetDistanceOf(acc) == MinOr0({acc[j][1] : j \in 1..Len(acc)})

\* PackageDistanceOf, taking the package distance of a dep that gives the
\* least target distance.
PackageDistanceOfNearest(acc) ==
    IF acc = <<>> THEN 0
    ELSE LET t == MinOr0({acc[j][1] : j \in 1..Len(acc)})
         IN  MinOr0({acc[j][2] : j \in {k \in 1..Len(acc) : acc[k][1] = t}})

PackageDistanceOf(acc) == MinOr0({acc[j][2] : j \in 1..Len(acc)})

\* The record of a directly impacted label.
DirectDistance(label) ==
    [label |-> label, target_distance |-> 0, package_distance |-> 0]

RECURSIVE CalculateDistance(_, _, _, _, _, _)
RECURSIVE WalkDeps(_, _, _, _, _, _, _, _)

\* The `for dep in deps` loop of calculate_distance, from position i on;
\* acc is the `distances` vector built so far, st the memo and visiting set.
WalkDeps(label, deps, i, acc, edges, kinds, st, depth) ==
    IF i > Len(deps) THEN [ok |-> TRUE, err |-> "", acc |-> acc, st |-> st]
    ELSE LET dep == deps[i] IN
         IF SkipsDep(dep, kinds)
         THEN WalkDeps(label, deps, i + 1, acc, edges, kinds, st, depth)
         ELSE LET r == CalculateDistance(dep, edges, kinds, st.memo, st.visiting, depth + 1)
              IN  IF ~r.ok THEN [ok |-> FALSE, err |-> r.err, acc |-> <<>>, st |-> st]
                  ELSE WalkDeps(label, deps, i + 1,
                                Append(acc, DepPair(label, dep, r.dist)), edges, kinds,
                                [memo |-> r.memo, visiting |-> r.visiting], depth)

\* calculate_distance.  depth counts the nested calls; a walk deeper than
\* MaxWalkDepth is reported as "diverged" instead of being followed.
CalculateDistance(label, edges, kinds, memo, visiting, depth) ==
    IF depth > MaxWalkDepth THEN WalkErr("diverged")
    ELSE IF label \in DOMAIN memo THEN WalkOk(memo[label], memo, visiting)
    ELSE IF AlreadyVisiting(label, visiting) THEN WalkErr("cycle detected")
    ELSE IF label \notin DOMAIN kinds THEN WalkErr("not marked as impacted")
    ELSE IF kinds[label] = "Direct"
    THEN WalkOk(DirectDistance(label), Insert(memo, label, DirectDistance(label)), visiting)
    ELSE IF label \notin DOMAIN edges THEN WalkErr("no dependencies in dep graph")
    ELSE LET w == WalkDeps(label, edges[label], 1, <<>>, edges, kinds,
                           [memo |-> memo, visiting |-> visiting \cup {label}], depth)
         IN  IF ~w.ok THEN WalkErr(w.err)
             ELSE IF NoImpactedDeps(w.acc) THEN WalkErr("no impacted dependencies")
             ELSE LET result == [label |-> label,
                                 target_distance |-> TargetDistanceOf(w.acc),
                                 package_distance |-> PackageDistanceOf(w.acc)]
                  IN  WalkOk(result, Insert(w.st.memo, label, result),
                             w.st.visiting \ {label})

RECURSIVE DistanceLoop(_, _, _, _, _, _, _)
\* The second loop of compute_distances, from position i on.
DistanceLoop(labels, i, out, edges, kinds, memo, visiting) ==
    IF i > Len(labels) THEN Ok(out)
    ELSE LET r == CalculateDistance(labels[i], edges, kinds, memo, visiting, 1)
         IN  IF ~r.ok THEN Err(r.err)
             ELSE DistanceLoop(labels, i + 1, Append(out, r.dist), edges, kinds,
                               r.memo, r.visiting)

ComputeDistancesOf(start, final, edges, labels) ==
    DistanceLoop(labels, 1, <<>>, edges, KindByLabel(labels, start, final), EmptyMap, {})

-----------------------------------------------------------------------------
(* The inputs of get-impacted-targets                                      *)

LA1 == <<"/", "/", "a", ":", "x">>

LA2 == <<"/", "/", "a", ":", "y">>

LA3 == <<"/", "/", "a", ":", "z">>

LB1 == <<"/", "/", "b", ":", "w">>

\* A hash string [kind#]transitive[~direct] out of its parts (kind and direct
\* are Options).
Raw(kind, transitive, direct) ==
    (IF IsSome(kind) THEN <<Unwrap(kind), "#">> ELSE <<>>)
        \o <<transitive>>
        \o (IF IsSome(direct) THEN <<"~", Unwrap(direct)>> ELSE <<>>)

\* A hashes file as read_target_hashes returns it: every value parsed.
ParsedMap(rawMap) == [label \in DOMAIN rawMap |-> Unwrap(Parse(rawMap[label]))]

\* The maps from a subset of labels to the strings of pool.
RawMaps(labels, pool) == UNION {[K -> pool] : K \in SUBSET labels}

ImpactLabels == {LA1, LA2, LB1}

StartPool == {Raw(Some("Rule"), "t1", Some("d1")), Raw(None, "t1", None)}

FinalPool ==
    {Raw(Some("Rule"), "t1", Some("d1")),
     Raw(Some("Rule"), "t2", Some("d1")),
     Raw(Some("SourceFile"), "t2", Some("d2")),
     Raw(Some("GeneratedFile"), "t2", None),
     Raw(Some("Alias"), "t2", Some("d1")),
     Raw(None, "t1", None)}

TypeFilters ==
    {None, Some({<<"Rule">>}), Some({<<"SourceFile">>, <<"GeneratedFile">>})}

ImpactDepEdges ==
    {None, Some((LA1 :> <<LA2, LB1>>) @@ (LA2 :> <<LB1>>) @@ (LB1 :> <<>>))}

DistLabels == {LA1, LA2, LB1}

\* An unchanged, an indirectly changed and a directly changed rule, against the
\* starting hash Rule#t1~d1.
DistStartRaw == Raw(Some("Rule"), "t1", Some("d1"))

DistFinalPool ==
    {Raw(Some("Rule"), "t1", Some("d1")),
     Raw(Some("Rule"), "t2", Some("d1")),
     Raw(Some("Rule"), "t2", Some("d2"))}

\* The dep lists of at most MaxDepLen labels.
DepLists == UNION {[1..n -> DistLabels] : n \in 0..MaxDepLen}

RECURSIVE TotalLen(_, _)
TotalLen(m, K) ==
    IF K = {} THEN 0
    ELSE LET k == CHOOSE x \in K : TRUE IN Len(m[k]) + TotalLen(m, K \ {k})

\* The dep-edge maps over DistLabels with at most MaxEdges edges in all: any
\* label may lack an entry, a list may repeat a label or name its own key.
DepEdgeMaps ==
    UNION {{m \in [K -> DepLists] : TotalLen(m, K) <= MaxEdges} : K \in SUBSET DistLabels}

LB2 == <<"/", "/", "b", ":", "z">>

HopLabels == <<LA1, LA2, LA3, LB1, LB2>>

HopLabelSet == {HopLabels[i] : i \in 1..Len(HopLabels)}

RECURSIVE IndexSeq(_)
\* The labels of HopLabels at the positions of S, in ascending position.
IndexSeq(S) ==
    IF S = {} THEN <<>>
    ELSE <<HopLabels[SetMin(S)]>> \o IndexSeq(S \ {SetMin(S)})

\* The dep lists of the label at position i: at most MaxDepLen labels at later
\* positions (an acyclic dep graph).
LaterLists(i) ==
    {IndexSeq(S) : S \in {T \in SUBSET ((i + 1)..Len(HopLabels)) : Cardinality(T) <= MaxDepLen}}

HopDepEdgeMaps ==
    {(LA1 :> d1) @@ (LA2 :> d2) @@ (LA3 :> d3) @@ (LB1 :> d4) @@ (LB2 :> <<>>) :
        d1 \in LaterLists(1), d2 \in LaterLists(2), d3 \in LaterLists(3),
        d4 \in LaterLists(4)}

-----------------------------------------------------------------------------
(* get_impacted_targets                                                    *)

InitImpactWith(startMaps, finalMaps, filters, edgeChoices) ==
    /\ pc = "start"
    /\ start_hashes \in {ParsedMap(m) : m \in startMaps}
    /\ final_hashes \in {ParsedMap(m) : m \in finalMaps}
    /\ target_types \in filters
    /\ dep_edges \in edgeChoices
    /\ impacted = NotRun
    /\ kind_by_label = EmptyMap
    /\ distances = NotRun
    /\ HashIdle
    /\ AuxIdle

\* compute_impacted_targets, as get_impacted_targets calls it.
ComputeImpactedTargets ==
    /\ pc = "start"
    /\ impacted' = ComputeImpactedTargetsOf(start_hashes, final_hashes, target_types)
    /\ pc' = IF ~impacted'.ok THEN "failed"
             ELSE IF IsSome(dep_edges) THEN "impacted"
             ELSE "done"
    /\ UNCHANGED <<start_hashes, final_hashes, target_types, dep_edges,
                   kind_by_label, distances, hash_vars, aux_vars>>

\* compute_distances, as get_impacted_targets calls it when dep edges are given.
ComputeDistances ==
    /\ pc = "impacted"
    /\ IsSome(dep_edges)
    /\ kind_by_label' = KindByLabel(impacted.val, start_hashes, final_hashes)
    /\ distances' = ComputeDistancesOf(start_hashes, final_hashes,
                                       Unwrap(dep_edges), impacted.val)
    /\ pc' = IF distances'.ok THEN "done" ELSE "failed"
    /\ UNCHANGED <<start_hashes, final_hashes, target_types, dep_edges, impacted,
                   hash_vars, aux_vars>>

NextImpact == ComputeImpactedTargets \/ ComputeDistances

InitImpact ==
    InitImpactWith(RawMaps(ImpactLabels, StartPool), RawMaps(ImpactLabels, FinalPool),
                   TypeFilters, ImpactDepEdges)

SpecImpact == InitImpact /\ [][NextImpact]_vars

InitDist ==
    InitImpactWith({[l \in DistLabels |-> DistStartRaw]}, [DistLabels -> DistFinalPool],
                   {None}, {Some(m) : m \in DepEdgeMaps})

SpecDist == InitDist /\ [][NextImpact]_vars

InitHops ==
    InitImpactWith({[l \in HopLabelSet |-> DistStartRaw]}, [HopLabelSet -> DistFinalPool],
                   {None}, {Some(m) : m \in HopDepEdgeMaps})

SpecHops == InitHops /\ [][NextImpact]_vars

-----------------------------------------------------------------------------
(* The hash engine: bytes, strings and paths                               *)
(*                                                                         *)
(* A byte string is a sequence of atoms.  SHA-256 is modelled as an        *)
(* injective function: its result is the hashed bytes between the atoms    *)
(* "H(" and ")".  Feeding a hasher several times hashes the concatenation. *)

Sha256(bytes) == <<"H(">> \o bytes \o <<")">>

\* The bytes 0x01 and 0x00.
Byte01 == <<"0x01">>

Byte00 == <<"0x00">>

StartsWith(s, p) == Len(s) >= Len(p) /\ SubSeq(s, 1, Len(p)) = p

EndsWith(s, p) == Len(s) >= Len(p) /\ SubSeq(s, Len(s) - Len(p) + 1, Len(s)) = p

Contains(s, c) == \E i \in 1..Len(s) : s[i] = c

RECURSIVE TrimStartMatches(_, _)
\* str::trim_start_matches(char)
TrimStartMatches(s, c) ==
    IF s # <<>> /\ s[1] = c THEN TrimStartMatches(Tail(s), c) ELSE s

RECURSIVE Replace(_, _, _)
\* str::replace(char, &str) with a one-character replacement
Replace(s, from, to) ==
    IF s = <<>> THEN <<>>
    ELSE <<IF s[1] = from THEN to ELSE s[1]>> \o Replace(Tail(s), from, to)

\* The first position of sub in s, 0 if there is none.
FindSub(s, sub) ==
    LET at == {i \in 1..(Len(s) - Len(sub) + 1) : SubSeq(s, i, i + Len(sub) - 1) = sub}
    IN  IF at = {} THEN 0 ELSE SetMin(at)

\* str::splitn(2, sep), as the sequence of its one or two items.
SplitN2(s, sep) ==
    LET i == FindSub(s, sep)
    IN  IF i = 0 THEN <<s>>
        ELSE <<SubSeq(s, 1, i - 1), SubSeq(s, i + Len(sep), Len(s))>>

SlashSlash == <<"/", "/">>

\* A PathBuf is the sequence of its components; an absolute path starts with
\* the component RootDir.  Two paths are equal iff their components are.
RootDir == <<"/">>

RECURSIVE SplitSlash(_, _)
SplitSlash(s, cur) ==
    IF s = <<>> THEN (IF cur = <<>> THEN <<>> ELSE <<cur>>)
    ELSE IF s[1] = "/"
         THEN (IF cur = <<>> THEN <<>> ELSE <<cur>>) \o SplitSlash(Tail(s), <<>>)
         ELSE SplitSlash(Tail(s), Append(cur, s[1]))

\* PathBuf::from(string)
PathFrom(s) ==
    (IF s # <<>> /\ s[1] = "/" THEN <<RootDir>> ELSE <<>>) \o SplitSlash(s, <<>>)

\* Path::join: an absolute argument replaces the path.
PathJoin(p, q) == IF q # <<>> /\ q[1] = RootDir THEN q ELSE p \o q

\* Path::strip_prefix: the remaining components, None if base is no prefix.
StripPrefix(p, base) ==
    IF Len(p) >= Len(base) /\ SubSeq(p, 1, Len(base)) = base
    THEN Some(SubSeq(p, Len(base) + 1, Len(p)))
    ELSE None

\* Path::exists and Path::is_file on the modelled file system.
Exists(files, path) == path \in DOMAIN files

IsFile(files, path) == path \in DOMAIN files /\ files[path].kind = "file"

-----------------------------------------------------------------------------
(* The hash engine: labels and the source-file hasher                      *)

TrimRepoName(repo) == TrimStartMatches(repo, "@")

NormalizeRepo(repo) == TrimRepoName(repo)

IsNotMainRepo(input) ==
    ~(\/ StartsWith(input, SlashSlash)
      \/ StartsWith(input, <<"@">> \o SlashSlash)
      \/ StartsWith(input, <<"@", "@">> \o SlashSlash))

\* The path of a main-repo label, None for every other label.
ResolveMainRepo(label, workspace) ==
    LET prefix_len == IF StartsWith(label, SlashSlash) THEN 2
                      ELSE IF StartsWith(label, <<"@">> \o SlashSlash) THEN 3
                      ELSE IF StartsWith(label, <<"@", "@">> \o SlashSlash) THEN 4
                      ELSE 0
        trimmed == SubSeq(label, prefix_len + 1, Len(label))
        normalized == TrimStartMatches(trimmed, ":")
        relative == Replace(normalized, ":", "/")
    IN  IF prefix_len = 0 THEN None
        ELSE Some([absolute |-> PathJoin(workspace, PathFrom(relative)),
                   workspace_relative |-> relative])

\* The repository and the relative path of a label that starts with '@'.
SplitExternalLabel(label) ==
    IF ~StartsWith(label, <<"@">>) THEN None
    ELSE LET trimmed == TrimStartMatches(label, "@")
             parts == SplitN2(trimmed, SlashSlash)
             rest == IF Len(parts) > 1 THEN parts[2] ELSE <<>>
         IN  Some([repo |-> parts[1],
                   rel |-> IF StartsWith(rest, <<":">>)
                           THEN TrimStartMatches(rest, ":")
                           ELSE Replace(rest, ":", "/")])

\* The outcome of the locate query `bazel query @repo//... --output location`:
\* whether the process could be run, its exit status, and the first line of
\* its output if there is one.
QueryOutcome(resolver, repo) ==
    IF repo \in DOMAIN resolver.query THEN resolver.query[repo]
    ELSE [spawned |-> TRUE, success |-> FALSE, stdout |-> None]

\* The repository directory a located path lies in: rel is the path relative
\* to external_root, if it lies under it.
RepoDirOf(rel, external_root) ==
    IF IsSome(rel) /\ Unwrap(rel) # <<>>
    THEN Ok(Some(PathJoin(external_root, <<Unwrap(rel)[1]>>)))
    ELSE Ok(None)

\* ExternalRepoResolver::resolve_bzlmod_path, given the outcome of the query.
ResolveBzlmodPath(outcome, external_root) ==
    IF ~outcome.spawned THEN Err("failed to run bazel query for repo mapping")
    ELSE IF ~outcome.success THEN Ok(None)
    ELSE IF outcome.stdout = None THEN Ok(None)
    ELSE RepoDirOf(StripPrefix(PathFrom(SplitN2(Unwrap(outcome.stdout), <<":", " ">>)[1]),
                               external_root),
                   external_root)

\* The choice of ExternalRepoResolver::resolve among its candidates.
ResolveAmong(files, plain, plus, located) ==
    IF Exists(files, plain) THEN Ok(plain)
    ELSE IF Exists(files, plus) THEN Ok(plus)
    ELSE IF ~located.ok THEN Err(located.err)
    ELSE IF IsSome(located.val) THEN Ok(Unwrap(located.val))
    ELSE Ok(plain)

ResolveUnder(resolver, files, repo, external_root) ==
    ResolveAmong(files,
                 PathJoin(external_root, PathFrom(repo)),
                 PathJoin(external_root, PathFrom(repo \o <<"+">>)),
                 ResolveBzlmodPath(QueryOutcome(resolver, repo), external_root))

ExternalRepoResolverResolve(resolver, files, repo) ==
    ResolveUnder(resolver, files, repo, PathJoin(resolver.output_base, <<<<"external">>>>))

\* The path of an external label below the root of its repository.
ExternalPath(repo_root, normalized_repo, rel) ==
    IF ~repo_root.ok THEN Err(repo_root.err)
    ELSE Ok(Some([absolute |-> PathJoin(repo_root.val, PathFrom(rel)),
                  workspace_relative |->
                      <<"external", "/">> \o normalized_repo \o <<"/">> \o rel]))

\* resolve_label without the fine-grained gate.
ResolveExternalUngated(cfg, files, normalized_repo, rel) ==
    ExternalPath(ExternalRepoResolverResolve(cfg.resolver, files, normalized_repo),
                 normalized_repo, rel)

ResolveExternal(cfg, files, normalized_repo, rel) ==
    IF normalized_repo \notin cfg.fine_grained_external_repos THEN Ok(None)
    ELSE ExternalPath(ExternalRepoResolverResolve(cfg.resolver, files, normalized_repo),
                      normalized_repo, rel)

ResolveLabelWith(cfg, files, main, ext) ==
    IF IsSome(main) THEN Ok(main)
    ELSE IF IsSome(ext)
    THEN ResolveExternal(cfg, files, NormalizeRepo(Unwrap(ext).repo), Unwrap(ext).rel)
    ELSE Ok(None)

\* SourceFileHasher::resolve_label: Result<Option<ResolvedPath>>
ResolveLabel(cfg, files, label) ==
    ResolveLabelWith(cfg, files, ResolveMainRepo(label, cfg.resolver.workspace),
                     SplitExternalLabel(label))

\* The hasher reading every file, whatever the modified-files list holds.
ReadsEveryFile(cfg, absolute) == TRUE

\* Whether the modified-files list lets the hasher read the file.
ReadsFile(cfg, absolute) ==
    \/ cfg.modified_filepaths = {}
    \/ \E p \in cfg.modified_filepaths : PathJoin(cfg.resolver.workspace, p) = absolute

\* The digest of a resolved path without overlay entry.
DigestOfPath(cfg, files, absolute, label, seed) ==
    IF Exists(files, absolute)
    THEN IF IsFile(files, absolute)
         THEN IF ReadsFile(cfg, absolute)
              THEN IF ~files[absolute].readable THEN Err("failed to read file")
                   ELSE Ok(Sha256(files[absolute].data \o Byte01 \o seed \o label))
              ELSE Ok(Sha256(Byte01 \o seed \o label))
         ELSE Ok(Sha256(seed \o label))
    ELSE Ok(Sha256(Byte00 \o seed \o label))

\* The digest of a resolved path without a look at the overlay.
DigestWithoutOverlay(cfg, files, path, label, seed) ==
    DigestOfPath(cfg, files, path.absolute, label, seed)

\* The digest of a resolved path: the overlay entry first.
DigestOfResolved(cfg, files, path, label, seed) ==
    IF IsSome(cfg.content_hashes)
       /\ path.workspace_relative \in DOMAIN Unwrap(cfg.content_hashes)
    THEN Ok(Sha256(Unwrap(cfg.content_hashes)[path.workspace_relative]
                       \o Byte01 \o seed \o label))
    ELSE DigestOfPath(cfg, files, path.absolute, label, seed)

SourceFileHasherDigestWith(cfg, files, label, seed, ext, resolved) ==
    IF IsSome(ext) /\ EndsWith(TrimRepoName(Unwrap(ext).repo), <<"+">>)
    THEN Ok(Sha256(<<>>))
    ELSE IF ~resolved.ok THEN Err(resolved.err)
    ELSE IF resolved.val = None THEN Ok(Sha256(<<>>))
    ELSE DigestOfResolved(cfg, files, Unwrap(resolved.val), label, seed)

\* SourceFileHasher::digest
SourceFileHasherDigest(cfg, files, label, seed) ==
    SourceFileHasherDigestWith(cfg, files, label, seed, SplitExternalLabel(label),
                               ResolveLabel(cfg, files, label))

\* Some(digest) of a Result<Vec<u8>>
MapSome(digest) == IF ~digest.ok THEN Err(digest.err) ELSE Ok(Some(digest.val))

\* soft_digest without the early return for labels that start with '@'.
SoftDigestOfAnyLabel(cfg, files, label, seed, resolved) ==
    IF ~resolved.ok THEN Err(resolved.err)
    ELSE IF resolved.val = None THEN Ok(None)
    ELSE IF ~IsFile(files, Unwrap(resolved.val).absolute) THEN Ok(None)
    ELSE MapSome(SourceFileHasherDigest(cfg, files, label, seed))

SoftDigestWith(cfg, files, label, seed, resolved) ==
    IF StartsWith(label, <<"@">>) THEN Ok(None)
    ELSE IF ~resolved.ok THEN Err(resolved.err)
    ELSE IF resolved.val = None THEN Ok(None)
    ELSE IF ~IsFile(files, Unwrap(resolved.val).absolute) THEN Ok(None)
    ELSE MapSome(SourceFileHasherDigest(cfg, files, label, seed))

\* SourceFileHasher::soft_digest: Result<Option<Vec<u8>>>
SoftDigest(cfg, files, label, seed) ==
    SoftDigestWith(cfg, files, label, seed, ResolveLabel(cfg, files, label))

-----------------------------------------------------------------------------
(* The hash engine: digests of sources, rules and generated files          *)

\* The deepest recursion of RuleHasher::digest the model follows.
MaxStackDepth == 4

\* The longest rule-input list of one rule among the graphs of the model.
MaxInputs == 2

RECURSIVE Concat(_)
\* The concatenation of a sequence of strings.
Concat(ss) == IF ss = <<>> THEN <<>> ELSE Head(ss) \o Concat(Tail(ss))

\* seed_for_source returning the empty seed.
SeedForSourceEmpty(source) == <<>>

SeedForSource(source) == Sha256(source.name \o Concat(source.subincludes))

TargetDigestFromSource(source_digest, seed_hash) ==
    LET digest == Sha256(source_digest \o seed_hash)
    IN  [overall |-> digest, direct |-> digest, deps |-> None]

CloneWithDeps(digest, deps) ==
    [overall |-> digest.overall, direct |-> digest.direct, deps |-> deps]

\* hex::encode keeps one atom per atom of the digest; the separators of a
\* rendered hash become their codes, so an encoded digest holds no '#' or '~'.
HexAtomRaw(c) == c

HexAtom(c) == IF c = "#" THEN "23" ELSE IF c = "~" THEN "7e" ELSE c

HexEncode(bytes) == [i \in 1..Len(bytes) |-> HexAtom(bytes[i])]

TargetHashValueNew(kind, digest) ==
    [kind |-> kind, overall |-> digest.overall, direct |-> digest.direct,
     deps |-> digest.deps]

\* TargetHashValue::render
Render(value, include_kind) ==
    LET total == HexEncode(value.overall) \o <<"~">> \o HexEncode(value.direct)
    IN  IF include_kind THEN <<value.kind, "#">> \o total ELSE total

\* DigestBuilder: the bytes fed to `direct` and to `overall` so far, and the
\* recorded dependency labels.
DigestBuilderNew(track_deps) ==
    [direct |-> <<>>, overall |-> <<>>,
     deps |-> IF track_deps THEN Some(<<>>) ELSE None]

PutDirect(builder, bytes) == [builder EXCEPT !.direct = @ \o bytes]

\* DigestBuilder::put_transitive recording the dependency without feeding its
\* digest.
PutTransitiveDepsOnly(builder, label, bytes) ==
    [builder EXCEPT !.deps = IF IsSome(@) THEN Some(Append(Unwrap(@), label)) ELSE None]

PutTransitive(builder, label, bytes) ==
    [builder EXCEPT !.overall = @ \o bytes,
                    !.deps = IF IsSome(@) THEN Some(Append(Unwrap(@), label)) ELSE None]

\* DigestBuilder::finish that hashes the direct bytes before the digest of the
\* transitive bytes.
FinishDirectFirst(builder) ==
    [overall |-> Sha256(Sha256(builder.direct) \o Sha256(builder.overall)),
     direct |-> Sha256(builder.direct),
     deps |-> builder.deps]

Finish(builder) ==
    LET direct_bytes == Sha256(builder.direct)
    IN  [overall |-> Sha256(builder.overall \o direct_bytes),
         direct |-> direct_bytes,
         deps |-> builder.deps]

RECURSIVE EncodeEveryAttribute(_, _)
\* The serialized bytes of all attributes, ignored or not.
EncodeEveryAttribute(attributes, ignored_attrs) ==
    IF attributes = <<>> THEN <<>>
    ELSE Head(attributes).encoded \o EncodeEveryAttribute(Tail(attributes), ignored_attrs)

RECURSIVE EncodeAttributes(_, _)
\* The serialized bytes of the attributes whose name is not ignored.
EncodeAttributes(attributes, ignored_attrs) ==
    IF attributes = <<>> THEN <<>>
    ELSE (IF Head(attributes).name \in ignored_attrs THEN <<>>
          ELSE Head(attributes).encoded)
             \o EncodeAttributes(Tail(attributes), ignored_attrs)

\* BazelRule::digest
BazelRuleDigest(rule, ignored_attrs) ==
    Sha256(rule.rule_class \o rule.name
               \o (IF IsSome(rule.skylark_environment_hash_code)
                   THEN Unwrap(rule.skylark_environment_hash_code) ELSE <<>>)
               \o EncodeAttributes(rule.attributes, ignored_attrs))

\* transform_rule_input that appends '+' to every fine-grained repository.
TransformRuleInputAlwaysPlus(input, fine_grained) ==
    LET trimmed == TrimStartMatches(input, "@")
        parts == SplitN2(trimmed, SlashSlash)
        repo_part == parts[1]
        remainder == IF Len(parts) > 1 THEN parts[2] ELSE <<>>
    IN  IF ~IsNotMainRepo(trimmed) THEN input
        ELSE IF NormalizeRepo(repo_part) \in fine_grained
        THEN <<"@", "@">> \o repo_part \o <<"+">> \o SlashSlash \o remainder
        ELSE <<"/", "/", "external", ":">> \o repo_part

TransformRuleInput(input, fine_grained) ==
    LET trimmed == TrimStartMatches(input, "@")
        parts == SplitN2(trimmed, SlashSlash)
        repo_part == parts[1]
        remainder == IF Len(parts) > 1 THEN parts[2] ELSE <<>>
        canonical_repo == IF EndsWith(repo_part, <<"+">>) THEN repo_part
                          ELSE repo_part \o <<"+">>
    IN  IF ~IsNotMainRepo(trimmed) THEN input
        ELSE IF NormalizeRepo(repo_part) \in fine_grained
        THEN <<"@", "@">> \o canonical_repo \o SlashSlash \o remainder
        ELSE <<"/", "/", "external", ":">> \o repo_part

\* Appends every item, seen or not.
PushAll(combined, items) == combined \o items

RECURSIVE PushUnseen(_, _)
\* Appends the items not yet in combined, in order.
PushUnseen(combined, items) ==
    IF items = <<>> THEN combined
    ELSE PushUnseen(IF \E i \in 1..Len(combined) : combined[i] = Head(items)
                    THEN combined ELSE Append(combined, Head(items)),
                    Tail(items))

\* BazelRule::rule_inputs
RuleInputs(rule, use_cquery, fine_grained_repos) ==
    IF use_cquery
    THEN PushUnseen(PushUnseen(<<>>, rule.configured_rule_inputs),
                    [i \in 1..Len(rule.rule_inputs) |->
                        TransformRuleInput(rule.rule_inputs[i], fine_grained_repos)])
    ELSE rule.rule_inputs

\* The result of a rule-hasher call: the digest and the two caches as the call
\* left them.
HashOk(digest, st) == [ok |-> TRUE, val |-> digest, err |-> "", st |-> st]

HashErr(e) == [ok |-> FALSE, val |-> <<>>, err |-> e, st |-> <<>>]

\* RuleHasher::digest, without the cycle check.
StackNeverContains(stack, name) == FALSE

\* `stack.contains(&rule.name)`
StackContains(stack, name) == \E i \in 1..Len(stack) : stack[i] = name

\* `dep_rule.name != rule.name`
IsOtherRule(dep_rule, rule) == dep_rule.name # rule.name

\* RuleHasher::digest, returning a memoised digest without its dep bytes.
ExistingDirectOnly(memo, name) ==
    [memo[name] EXCEPT !.overall = memo[name].direct]

\* `self.rule_digests.get(&rule.name)` when there is an entry
Existing(memo, name) == memo[name]

\* The digest the rule hasher caches for an input it hashed as a file.
Adjusted(input, heuristic, seed_hash) ==
    IF StartsWith(input, <<"@", "@">>) /\ Contains(input, "+")
    THEN TargetDigestFromSource(heuristic, seed_hash).overall
    ELSE heuristic

\* The state of the loop over the inputs of a rule: the builder and the
\* caches, or the error that ended the loop.
InputsOk(builder, st) == [ok |-> TRUE, err |-> "", builder |-> builder, st |-> st]

InputsErr(e) == [ok |-> FALSE, err |-> e, builder |-> <<>>, st |-> <<>>]

\* An input that names another rule, its digest fed into `direct`.
FeedRuleIntoDirect(fed, input, dep) ==
    IF ~dep.ok THEN InputsErr(dep.err)
    ELSE InputsOk(PutDirect(PutTransitive(fed, input, <<>>), dep.val.overall), dep.st)

\* An input that names another rule, given the digest of that rule.
FeedRule(fed, input, dep) ==
    IF ~dep.ok THEN InputsErr(dep.err)
    ELSE InputsOk(PutTransitive(fed, input, dep.val.overall), dep.st)

\* The soft digest of an input, cached and fed into `direct`.
FeedAdjusted(fed, input, adjusted, st) ==
    InputsOk(PutDirect(fed, adjusted),
             [st EXCEPT !.source_digests = Insert(@, input, adjusted),
                        !.writes = Counted(@, "source_digests", input)])

\* An input that names neither a rule nor a hashed source, given its soft digest.
FeedFile(cfg, fed, input, heuristic, st) ==
    IF ~heuristic.ok THEN InputsErr(heuristic.err)
    ELSE IF IsSome(heuristic.val)
    THEN FeedAdjusted(fed, input, Adjusted(input, Unwrap(heuristic.val), cfg.seed_hash), st)
    ELSE InputsOk(fed, st)

RECURSIVE RuleHasherDigest(_, _, _, _, _, _)
\* One iteration of the loop over the inputs of a rule; fed is the builder
\* after the bytes of the label.
InputStep(g, cfg, files, rule, input, fed, stack, st) ==
    IF input \in DOMAIN g.rule_map
    THEN IF IsOtherRule(g.rule_map[input], rule)
         THEN FeedRule(fed, input,
                       RuleHasherDigest(g, cfg, files, g.rule_map[input], stack, st))
         ELSE InputsOk(fed, st)
    ELSE IF input \in DOMAIN st.source_digests
    THEN InputsOk(PutDirect(fed, st.source_digests[input]), st)
    ELSE FeedFile(cfg, fed, input, SoftDigest(cfg, files, input, <<>>), st)

RECURSIVE HashInputs(_, _, _, _, _, _, _, _)
\* The loop over the inputs of one rule, from input i on; r is the state of
\* the loop before input i.
HashInputs(g, cfg, files, rule, inputs, i, stack, r) ==
    IF ~r.ok \/ i > Len(inputs) THEN r
    ELSE HashInputs(g, cfg, files, rule, inputs, i + 1, stack,
                    InputStep(g, cfg, files, rule, inputs[i],
                              PutDirect(r.builder, inputs[i]), stack, r.st))

\* The end of RuleHasher::digest: the digest is memoised and returned.
FinishRule(rule, walked, digest) ==
    IF ~walked.ok THEN HashErr(walked.err)
    ELSE HashOk(digest, [walked.st EXCEPT !.rule_digests = Insert(@, rule.name, digest),
                                          !.writes = Counted(@, "rule_digests", rule.name)])

FinishWalk(rule, walked) == FinishRule(rule, walked, Finish(walked.builder))

\* RuleHasher::digest without the lookup in the memo.
RuleHasherDigestUnmemoised(g, cfg, files, rule, stack, st) ==
    IF Len(stack) > MaxStackDepth THEN HashErr("diverged")
    ELSE IF StackContains(stack, rule.name)
    THEN HashErr("Circular dependency detected")
    ELSE FinishWalk(rule,
             HashInputs(g, cfg, files, rule,
                        RuleInputs(rule, g.use_cquery, cfg.fine_grained_external_repos),
                        1, Append(stack, rule.name),
                        InputsOk(PutDirect(PutDirect(DigestBuilderNew(cfg.track_dep_edges),
                                                     BazelRuleDigest(rule, cfg.ignored_attrs)),
                                           cfg.seed_hash),
                                 st)))

\* RuleHasher::digest.  stack is the recursion stack at the call; st holds
\* source_digests and rule_digests.
RuleHasherDigest(g, cfg, files, rule, stack, st) ==
    IF Len(stack) > MaxStackDepth THEN HashErr("diverged")
    ELSE IF rule.name \in DOMAIN st.rule_digests
    THEN HashOk(Existing(st.rule_digests, rule.name), st)
    ELSE IF StackContains(stack, rule.name)
    THEN HashErr("Circular dependency detected")
    ELSE FinishWalk(rule,
             HashInputs(g, cfg, files, rule,
                        RuleInputs(rule, g.use_cquery, cfg.fine_grained_external_repos),
                        1, Append(stack, rule.name),
                        InputsOk(PutDirect(PutDirect(DigestBuilderNew(cfg.track_dep_edges),
                                                     BazelRuleDigest(rule, cfg.ignored_attrs)),
                                           cfg.seed_hash),
                                 st)))

\* The digest of a generated file with the direct hash of its generating rule
\* in both fields.
GeneratedFromDirect(generated, digest) ==
    IF ~digest.ok THEN HashErr(digest.err)
    ELSE HashOk([overall |-> digest.val.direct, direct |-> digest.val.direct,
                 deps |-> Some(<<generated.generating_rule>>)], digest.st)

\* The digest of a generated file, given the digest of its generating rule.
GeneratedFrom(generated, digest) ==
    IF ~digest.ok THEN HashErr(digest.err)
    ELSE HashOk(CloneWithDeps(digest.val, Some(<<generated.generating_rule>>)), digest.st)

\* RuleHasher::digest_generated
DigestGenerated(g, cfg, files, generated, st) ==
    IF generated.generating_rule \notin DOMAIN g.rule_map
    THEN HashErr("Missing generating rule")
    ELSE GeneratedFrom(generated,
                       RuleHasherDigest(g, cfg, files,
                                        g.rule_map[generated.generating_rule], <<>>, st))

-----------------------------------------------------------------------------
(* The hash engine: HashEngine::compute                                    *)

\* The source digests after the digest of one more source.
SourceHashed(digests, source, digest) ==
    IF ~digest.ok THEN Err("failed to hash source")
    ELSE Ok(Insert(digests, source.name, digest.val))

\* One iteration of the first loop: the digest of graph.sources[i].
SourceStep(g, cfg, files, digests, i) ==
    SourceHashed(digests, g.sources[i],
                 SourceFileHasherDigest(cfg, files, g.sources[i].name,
                                        SeedForSource(g.sources[i])))

\* The state of the second loop: source_digests, rule_digests and results, or
\* the error that ended the loop.
LoopOk(st) == [ok |-> TRUE, err |-> "", st |-> st]

LoopErr(e) == [ok |-> FALSE, err |-> e, st |-> <<>>]

\* The result of a rule or generated file, given its digest.
TargetHashed(st, target, kind, digest) ==
    IF ~digest.ok THEN LoopErr(digest.err)
    ELSE LoopOk([source_digests |-> digest.st.source_digests,
                 rule_digests |-> digest.st.rule_digests,
                 writes |-> digest.st.writes,
                 results |-> Insert(st.results, target.name,
                                    TargetHashValueNew(kind, digest.val))])

CachesOf(st) ==
    [source_digests |-> st.source_digests, rule_digests |-> st.rule_digests,
     writes |-> st.writes]

\* One iteration of the second loop: the target graph.targets[i].  The rule
\* of a Rule target is the rule BazelGraph::load put into rule_map under the
\* target's name.
TargetStepOn(g, cfg, files, st, target) ==
    IF target.kind = "Rule"
    THEN TargetHashed(st, target, "Rule",
                      RuleHasherDigest(g, cfg, files, g.rule_map[target.name], <<>>,
                                       CachesOf(st)))
    ELSE IF target.kind = "Generated"
    THEN TargetHashed(st, target, "GeneratedFile",
                      DigestGenerated(g, cfg, files, target, CachesOf(st)))
    ELSE LoopOk(st)

TargetStep(g, cfg, files, st, i) == TargetStepOn(g, cfg, files, st, g.targets[i])

RECURSIVE EmitSources(_, _, _, _, _)
\* The third loop: the results of the sources, from source i on.
EmitSources(g, cfg, digests, res, i) ==
    IF i > Len(g.sources) THEN Ok(res)
    ELSE IF g.sources[i].name \notin DOMAIN digests THEN Err("missing source digest")
    ELSE EmitSources(g, cfg, digests,
                     Insert(res, g.sources[i].name,
                            TargetHashValueNew("SourceFile",
                                TargetDigestFromSource(digests[g.sources[i].name],
                                                       cfg.seed_hash))),
                     i + 1)

\* `results.retain(|_, v| filter.contains(v.kind.as_str()))`
Retain(res, filter) ==
    IF IsSome(filter)
    THEN [l \in {k \in DOMAIN res : res[k].kind \in Unwrap(filter)} |-> res[l]]
    ELSE res

\* The two maps of the result, rendered from the retained results.
RenderMaps(kept, include_kind) ==
    [hashes |-> [l \in DOMAIN kept |-> Render(kept[l], include_kind)],
     dep_edges |-> [l \in {k \in DOMAIN kept : IsSome(kept[k].deps)} |->
                        Some(Unwrap(kept[l].deps))]]

EmitFrom(cfg, emitted) ==
    IF ~emitted.ok THEN Err(emitted.err)
    ELSE Ok(RenderMaps(Retain(emitted.val, cfg.target_types), cfg.include_target_type))

\* The rest of compute after the second loop: Result<GenerateHashesResult>.
EmitOf(g, cfg, st) ==
    EmitFrom(cfg, EmitSources(g, cfg, st.source_digests, st.results, 1))

RECURSIVE SourceLoop(_, _, _, _, _)
\* The first loop from source i on; r is the result of the loop so far.
SourceLoop(g, cfg, files, r, i) ==
    IF ~r.ok \/ i > Len(g.sources) THEN r
    ELSE SourceLoop(g, cfg, files, SourceStep(g, cfg, files, r.val, i), i + 1)

RECURSIVE TargetLoop(_, _, _, _, _)
\* The second loop from target i on; r is the state of the loop so far.
TargetLoop(g, cfg, files, r, i) ==
    IF ~r.ok \/ i > Len(g.targets) THEN r
    ELSE TargetLoop(g, cfg, files, TargetStep(g, cfg, files, r.st, i), i + 1)

ComputeFromTargets(g, cfg, walked) ==
    IF ~walked.ok THEN Err(walked.err) ELSE EmitOf(g, cfg, walked.st)

\* The insert counts the first loop leaves: one insert per source of the
\* vector.
SourceWrites(g) ==
    [k \in {<<"source_digests", g.sources[i].name>> : i \in 1..Len(g.sources)} |->
        Cardinality({i \in 1..Len(g.sources) : g.sources[i].name = k[2]})]

ComputeFromSources(g, cfg, files, hashed) ==
    IF ~hashed.ok THEN Err(hashed.err)
    ELSE ComputeFromTargets(g, cfg,
             TargetLoop(g, cfg, files,
                        LoopOk([source_digests |-> hashed.val, rule_digests |-> EmptyMap,
                                writes |-> SourceWrites(g), results |-> EmptyMap]), 1))

\* HashEngine::compute on the graph as given: sources and targets in the
\* order of their vectors.
HashEngineCompute(g, cfg, files) ==
    ComputeFromSources(g, cfg, files, SourceLoop(g, cfg, files, Ok(EmptyMap), 1))

\* The position of compute when the given sources and targets are left.
PcOfCompute(sources_left, targets_left) ==
    IF sources_left # {} THEN "sources"
    ELSE IF targets_left # {} THEN "targets"
    ELSE "emit"

\* The get-impacted-targets command does not run in a generate-hashes command.
ImpactIdle ==
    /\ start_hashes = EmptyMap
    /\ final_hashes = EmptyMap
    /\ target_types = None
    /\ dep_edges = None
    /\ impacted = NotRun
    /\ kind_by_label = EmptyMap
    /\ distances = NotRun

\* The state at the start of HashEngine::compute.  BazelGraph::load fills the
\* vectors from a HashMap, so the loops may meet the nodes in any order: the
\* model picks the next node among those not yet visited.
InitHashWith(graphs, configs, fileSystems) ==
    /\ graph \in graphs
    /\ config \in configs
    /\ fs \in fileSystems
    /\ todo_sources = 1..Len(graph.sources)
    /\ todo_targets = 1..Len(graph.targets)
    /\ source_digests = EmptyMap
    /\ rule_digests = EmptyMap
    /\ results = EmptyMap
    /\ writes = EmptyMap
    /\ output = NotRun
    /\ pc = PcOfCompute(todo_sources, todo_targets)
    /\ ImpactIdle
    /\ AuxIdle

\* The effect of hashing source i with result r.
SourceDone(i, r) ==
    IF r.ok
    THEN /\ source_digests' = r.val
         /\ writes' = Counted(writes, "source_digests", graph.sources[i].name)
         /\ todo_sources' = todo_sources \ {i}
         /\ pc' = PcOfCompute(todo_sources \ {i}, todo_targets)
         /\ output' = output
    ELSE /\ pc' = "failed"
         /\ output' = Err(r.err)
         /\ UNCHANGED <<source_digests, writes, todo_sources>>

\* An iteration of `for source in &graph.sources`.
HashSource ==
    /\ pc = "sources"
    /\ \E i \in todo_sources :
           SourceDone(i, SourceStep(graph, config, fs, source_digests, i))
    /\ UNCHANGED <<graph, config, fs, todo_targets, rule_digests, results, impact_vars, aux_vars>>

\* The effect of hashing target i with result r.
TargetDone(i, r) ==
    IF r.ok
    THEN /\ source_digests' = r.st.source_digests
         /\ rule_digests' = r.st.rule_digests
         /\ results' = r.st.results
         /\ writes' = r.st.writes
         /\ todo_targets' = todo_targets \ {i}
         /\ pc' = PcOfCompute({}, todo_targets \ {i})
         /\ output' = output
    ELSE /\ pc' = "failed"
         /\ output' = Err(r.err)
         /\ UNCHANGED <<source_digests, rule_digests, results, writes, todo_targets>>

\* The caches and results of the running compute.
EngineState ==
    [source_digests |-> source_digests, rule_digests |-> rule_digests,
     writes |-> writes, results |-> results]

\* An iteration of `for target in graph.targets.iter()`.
HashTarget ==
    /\ pc = "targets"
    /\ \E i \in todo_targets :
           TargetDone(i, TargetStep(graph, config, fs, EngineState, i))
    /\ UNCHANGED <<graph, config, fs, todo_sources, impact_vars, aux_vars>>

\* The rest of compute: the results of the sources, the type filter and the
\* rendering of the two maps.
Emit ==
    /\ pc = "emit"
    /\ output' = EmitOf(graph, config, EngineState)
    /\ pc' = IF output'.ok THEN "done" ELSE "failed"
    /\ UNCHANGED <<graph, config, fs, todo_sources, todo_targets, source_digests,
                   rule_digests, results, writes, impact_vars, aux_vars>>

NextHash == HashSource \/ HashTarget \/ Emit

-----------------------------------------------------------------------------
(* The graphs, configurations and file systems of the hash-engine model    *)

RuleA == <<"/", "/", "a", ":", "x">>

RuleB == <<"/", "/", "a", ":", "y">>

RuleC == <<"/", "/", "b", ":", "w">>

GenG == <<"/", "/", "a", ":", "g">>

SrcS == <<"/", "/", "a", ":", "s">>

SrcT == <<"/", "/", "b", ":", "t">>

\* A file of the workspace that is no node of the graph.
FileU == <<"/", "/", "a", ":", "u">>

\* A label that names no rule.
NoRule == <<"/", "/", "a", ":", "q">>

Workspace == PathFrom(<<"/", "w">>)

OutputBase == PathFrom(<<"/", "o">>)

RuleOf(name, inputs) ==
    [name |-> name, rule_class |-> <<"lib">>, skylark_environment_hash_code |-> None,
     attributes |-> <<>>, rule_inputs |-> inputs, configured_rule_inputs |-> <<>>]

RuleTarget(name) ==
    [kind |-> "Rule", name |-> name, generating_rule |-> <<>>, subincludes |-> <<>>]

GeneratedTarget(name, generating_rule) ==
    [kind |-> "Generated", name |-> name, generating_rule |-> generating_rule,
     subincludes |-> <<>>]

SourceTarget(name) ==
    [kind |-> "Source", name |-> name, generating_rule |-> <<>>, subincludes |-> <<>>]

\* The graph BazelGraph::load builds from three rules, one generated file and
\* two source files.
GraphOf(inputsA, inputsB, inputsC, generating_rule, use_cquery) ==
    [targets |-> <<RuleTarget(RuleA), RuleTarget(RuleB), RuleTarget(RuleC),
                   GeneratedTarget(GenG, generating_rule),
                   SourceTarget(SrcS), SourceTarget(SrcT)>>,
     rule_map |-> (RuleA :> RuleOf(RuleA, inputsA)) @@ (RuleB :> RuleOf(RuleB, inputsB))
                      @@ (RuleC :> RuleOf(RuleC, inputsC)),
     sources |-> <<SourceTarget(SrcS), SourceTarget(SrcT)>>,
     use_cquery |-> use_cquery]

\* The rule-input lists of at most MaxInputs labels of a pool.
InputLists(pool) == UNION {[1..n -> pool] : n \in 0..MaxInputs}

\* Every rule may list itself and RuleA, so the graphs hold self-references,
\* cycles of two and three rules, shared dependencies and shared files.
HashGraphs ==
    {GraphOf(a, b, c, gr, FALSE) :
        a \in InputLists({RuleA, RuleB, RuleC, SrcS, FileU}),
        b \in InputLists({RuleA, RuleC, FileU}),
        c \in {<<>>, <<RuleA>>, <<RuleC>>},
        gr \in {RuleA, RuleC, NoRule}}

HashConfig ==
    [include_target_type |-> TRUE,
     target_types |-> None,
     ignored_attrs |-> {<<"generator_location">>},
     fine_grained_external_repos |-> {},
     seed_hash |-> <<>>,
     content_hashes |-> None,
     modified_filepaths |-> {},
     track_dep_edges |-> TRUE,
     resolver |-> [workspace |-> Workspace, output_base |-> OutputBase,
                   query |-> EmptyMap]]

FileOf(data, readable) == [kind |-> "file", data |-> data, readable |-> readable]

\* a/s and a/u are readable files; b/t is a file that may be unreadable.
HashFileSystems ==
    {(PathJoin(Workspace, PathFrom(<<"a", "/", "s">>)) :> FileOf(<<"s1">>, TRUE))
       @@ (PathJoin(Workspace, PathFrom(<<"a", "/", "u">>)) :> FileOf(<<"u1">>, TRUE))
       @@ (PathJoin(Workspace, PathFrom(<<"b", "/", "t">>)) :> FileOf(<<"t1">>, r)) :
     r \in BOOLEAN}

InitHash == InitHashWith(HashGraphs, {HashConfig}, HashFileSystems)

SpecHash == InitHash /\ [][NextHash]_vars

-----------------------------------------------------------------------------
(* Two runs of the hash engine around one change of its inputs              *)

\* Another label of the file of SrcS: resolve_main_repo maps both to a/s.
AliasS == <<"/", "/", ":", "a", "/", "s">>

\* A rule of an external repository.
RuleE == <<"@", "r", "/", "/", ":", "l">>

\* DEFAULT_IGNORED_ATTRS
DefaultIgnoredAttrs == {<<"generator_location">>}

\* generate_hashes: the caller's ignored names chained with the built-in ones.
IgnoredAttrs(caller_attrs) == caller_attrs \cup DefaultIgnoredAttrs

\* An attribute of a rule: its name and its serialized bytes.
Attribute(name, encoded) == [name |-> name, encoded |-> encoded]

AttributesA ==
    <<Attribute(<<"generator_location">>, <<"g1">>), Attribute(<<"tags">>, <<"t1">>),
      Attribute(<<"srcs">>, <<"c1">>)>>

AttributesB == <<Attribute(<<"generator_location">>, <<"g2">>)>>

\* The bytes an edit may write.
NewBytes == {<<"n1">>}

\* A graph of three rules (one of them external), a generated file of RuleA
\* and two source files.
ChangeGraphOf(inputsA, configuredA, inputsB, inputsE, use_cquery) ==
    [targets |-> <<RuleTarget(RuleA), RuleTarget(RuleB), RuleTarget(RuleE),
                   GeneratedTarget(GenG, RuleA),
                   SourceTarget(SrcS), SourceTarget(SrcT)>>,
     rule_map |-> (RuleA :> [RuleOf(RuleA, inputsA) EXCEPT
                                !.attributes = AttributesA,
                                !.configured_rule_inputs = configuredA])
                      @@ (RuleB :> [RuleOf(RuleB, inputsB) EXCEPT
                                       !.attributes = AttributesB])
                      @@ (RuleE :> RuleOf(RuleE, inputsE)),
     sources |-> <<SourceTarget(SrcS), SourceTarget(SrcT)>>,
     use_cquery |-> use_cquery]

\* Query mode, and configured mode without and with configured inputs.
ChangeModes ==
    {[use_cquery |-> FALSE, configured |-> <<>>],
     [use_cquery |-> TRUE, configured |-> <<>>],
     [use_cquery |-> TRUE, configured |-> <<RuleB>>]}

ChangeGraphs ==
    {ChangeGraphOf(a, m.configured, b, e, m.use_cquery) :
        a \in {<<>>, <<RuleB>>, <<RuleE>>, <<AliasS>>, <<RuleB, SrcT>>, <<SrcT, RuleE>>},
        m \in ChangeModes,
        b \in {<<>>, <<SrcS>>, <<RuleE>>, <<RuleA>>},
        e \in {<<>>, <<SrcS>>}}

\* The caller ignores the attribute tags.  A run has no overlay and no
\* modified-files list, or an overlay entry for a/s, or a modified-files list
\* that leaves out a/s.
ChangeMasks ==
    {[content_hashes |-> None, modified_filepaths |-> {}],
     [content_hashes |-> Some(<<"a", "/", "s">> :> <<"ov">>), modified_filepaths |-> {}],
     [content_hashes |-> None, modified_filepaths |-> {PathFrom(<<"b", "/", "t">>)}]}

\* --ignoredRuleHashingAttributes tags
CallerIgnoredAttrs == {<<"tags">>}

ChangeConfigs ==
    {[HashConfig EXCEPT !.ignored_attrs = IgnoredAttrs(CallerIgnoredAttrs),
                        !.content_hashes = m.content_hashes,
                        !.modified_filepaths = m.modified_filepaths] :
        m \in ChangeMasks}

ChangeFileSystems ==
    {(PathJoin(Workspace, PathFrom(<<"a", "/", "s">>)) :> FileOf(<<"s1">>, TRUE))
       @@ (PathJoin(Workspace, PathFrom(<<"b", "/", "t">>)) :> FileOf(<<"t1">>, TRUE))}

InitChange ==
    /\ InitHashWith(ChangeGraphs, ChangeConfigs, ChangeFileSystems)

\* The file a main-repo label resolves to.
FileOfLabel(label) == Unwrap(ResolveMainRepo(label, config.resolver.workspace)).absolute

\* The command is run again after a change: compute starts anew on the
\* changed inputs, and the result of the first run is kept for comparison.
RunAgain ==
    /\ output_before' = output
    /\ todo_sources' = 1..Len(graph.sources)
    /\ todo_targets' = 1..Len(graph.targets)
    /\ source_digests' = EmptyMap
    /\ rule_digests' = EmptyMap
    /\ results' = EmptyMap
    /\ writes' = EmptyMap
    /\ output' = NotRun
    /\ pc' = PcOfCompute(todo_sources', todo_targets')
    /\ UNCHANGED <<config, impact_vars, parse_vars, cli_vars, call_vars>>

\* After a successful run the bytes of one existing source file of the graph
\* change.
EditSource ==
    /\ pc = "done"
    /\ edit = None
    /\ \E i \in 1..Len(graph.sources), data \in NewBytes :
           /\ IsFile(fs, FileOfLabel(graph.sources[i].name))
           /\ fs[FileOfLabel(graph.sources[i].name)].data # data
           /\ fs' = [fs EXCEPT ![FileOfLabel(graph.sources[i].name)].data = data]
           /\ edit' = Some([kind |-> "source", label |-> graph.sources[i].name,
                            attribute |-> <<>>])
    /\ graph' = graph
    /\ RunAgain

\* After a successful run the serialized bytes of one attribute of one rule
\* change.
EditAttribute ==
    /\ pc = "done"
    /\ edit = None
    /\ \E name \in DOMAIN graph.rule_map, data \in NewBytes :
           \E i \in 1..Len(graph.rule_map[name].attributes) :
               /\ graph.rule_map[name].attributes[i].encoded # data
               /\ graph' = [graph EXCEPT !.rule_map[name].attributes[i].encoded = data]
               /\ edit' = Some([kind |-> "attribute", label |-> name,
                                attribute |-> graph.rule_map[name].attributes[i].name])
    /\ fs' = fs
    /\ RunAgain

NextChange == NextHash \/ EditSource \/ EditAttribute

SpecChange == InitChange /\ [][NextChange]_vars

-----------------------------------------------------------------------------
(* Runs of the hash engine under varied options                            *)

\* The source file of the single-source scenario.
SrcX == <<"/", "/", "a", ":", "x.txt">>

\* A file of the external repository r.
ExtF == <<"@", "r", "/", "/", ":", "f">>

\* A file of a repository whose name is canonical (it ends with '+').
ExtP == <<"@", "@", "q", "+", "/", "/", ":", "f">>

EmptyRuleMap == [k \in {} |-> <<>>]

\* The graph of the single SourceFile //a:x.txt without subincludes.
SingleSourceGraph ==
    [targets |-> <<SourceTarget(SrcX)>>,
     rule_map |-> EmptyRuleMap,
     sources |-> <<SourceTarget(SrcX)>>,
     use_cquery |-> FALSE]

\* Two source files of external repositories.
ExternalSourcesGraph ==
    [targets |-> <<SourceTarget(ExtF), SourceTarget(ExtP)>>,
     rule_map |-> EmptyRuleMap,
     sources |-> <<SourceTarget(ExtF), SourceTarget(ExtP)>>,
     use_cquery |-> FALSE]

\* RuleA lists a source, RuleB lists RuleA, and a generated file names its
\* generating rule.
GeneratedGraph(generating_rule) ==
    [targets |-> <<RuleTarget(RuleA), RuleTarget(RuleB),
                   GeneratedTarget(GenG, generating_rule), SourceTarget(SrcS)>>,
     rule_map |-> (RuleA :> RuleOf(RuleA, <<SrcS>>)) @@ (RuleB :> RuleOf(RuleB, <<RuleA>>)),
     sources |-> <<SourceTarget(SrcS)>>,
     use_cquery |-> FALSE]

\* A rule that lists an external source and a main-repo source.
MixedGraph ==
    [targets |-> <<RuleTarget(RuleA), GeneratedTarget(GenG, RuleA),
                   SourceTarget(ExtF), SourceTarget(SrcS)>>,
     rule_map |-> (RuleA :> RuleOf(RuleA, <<ExtF, SrcS>>)),
     sources |-> <<SourceTarget(ExtF), SourceTarget(SrcS)>>,
     use_cquery |-> FALSE]

EmitGraphs ==
    {SingleSourceGraph, ExternalSourcesGraph, GeneratedGraph(RuleA),
     GeneratedGraph(NoRule), MixedGraph}

\* The locate query of the resolver: it finds nothing, or it cannot be run.
EmitQueries ==
    {EmptyMap, <<"r">> :> [spawned |-> FALSE, success |-> FALSE, stdout |-> None]}

EmitConfigs ==
    {[HashConfig EXCEPT !.include_target_type = k,
                        !.track_dep_edges = t,
                        !.fine_grained_external_repos = f,
                        !.target_types = tt,
                        !.resolver.query = q] :
        k \in BOOLEAN, t \in BOOLEAN, f \in {{}, {<<"r">>}},
        tt \in {None, Some({"Rule"}), Some({"GeneratedFile"})},
        q \in EmitQueries}

DirEntry == [kind |-> "dir", data |-> <<>>, readable |-> TRUE]

\* The directory of the external repository r and its file f.
ExternalFiles ==
    (PathJoin(OutputBase, PathFrom(<<"external", "/", "r">>)) :> DirEntry)
      @@ (PathJoin(OutputBase, PathFrom(<<"external", "/", "r", "/", "f">>))
              :> FileOf(<<"f1">>, TRUE))

\* a/x.txt holds 'hello'; a/s holds plain bytes or the two separator bytes of
\* a rendered hash; the external repository is fetched or not.
EmitFileSystems ==
    {(PathJoin(Workspace, PathFrom(<<"a", "/", "x.txt">>)) :> FileOf(<<"hello">>, TRUE))
       @@ (PathJoin(Workspace, PathFrom(<<"a", "/", "s">>)) :> FileOf(d, TRUE))
       @@ e :
     d \in {<<"s1">>, <<"#", "~">>}, e \in {EmptyMap, ExternalFiles}}

InitEmit == InitHashWith(EmitGraphs, EmitConfigs, EmitFileSystems)

SpecEmit == InitEmit /\ [][NextHash]_vars

-----------------------------------------------------------------------------
(* TargetHash::parse on its own                                            *)

\* The longest string handed to the parser.
MaxRawLen == 4

\* The strings of at most MaxRawLen atoms over the two separators and two
\* other characters.
RawStrings == UNION {[1..n -> {"#", "~", "a", "b"}] : n \in 0..MaxRawLen}

InitParse ==
    /\ pc = "parse"
    /\ raw_hash \in RawStrings
    /\ parsed = NotRun
    /\ edit = None
    /\ output_before = NotRun
    /\ args = <<>>
    /\ out_file = None
    /\ dep_file = None
    /\ exit_status = None
    /\ CallIdle
    /\ HashIdle
    /\ ImpactIdle

\* TargetHash::parse(raw)
ParseHash ==
    /\ pc = "parse"
    /\ parsed' = (IF IsSome(Parse(raw_hash)) THEN Ok(Unwrap(Parse(raw_hash)))
                  ELSE Err("target hash string cannot be empty"))
    /\ pc' = IF parsed'.ok THEN "done" ELSE "failed"
    /\ UNCHANGED <<raw_hash, impact_vars, hash_vars, change_vars, cli_vars, call_vars>>

NextParse == ParseHash

SpecParse == InitParse /\ [][NextParse]_vars

-----------------------------------------------------------------------------
(* The generate-hashes command: handle_generate_hashes                     *)

\* The command lines: --contentHashPath absent, naming a file or naming no
\* file; the two fine-grained options given together or not; an output path
\* or stdout; with or without --depEdgesFile.
CliArgs ==
    [content_hash_path : {None, Some("file"), Some("missing")},
     fine_grained_both : BOOLEAN,
     output_path : {None, Some("out.json")},
     dep_edges_file : {None, Some("deps.json")},
     include_target_type : {FALSE}]

\* The HashEngineConfig generate_hashes builds for a command line.
CliConfig(a) ==
    [HashConfig EXCEPT !.include_target_type = a.include_target_type,
                       !.track_dep_edges = IsSome(a.dep_edges_file),
                       !.content_hashes = IF IsSome(a.content_hash_path)
                                          THEN Some(EmptyMap) ELSE None]

CliGraphs == {SingleSourceGraph, GeneratedGraph(RuleA), GeneratedGraph(NoRule)}

\* What a file or stdout holds: the JSON of a map, whole or in part.
Written(json, complete) == [json |-> json, complete |-> complete]

InitCli ==
    /\ pc = "check"
    /\ args \in CliArgs
    /\ graph \in CliGraphs
    /\ config = CliConfig(args)
    /\ fs \in {f \in EmitFileSystems :
                  f[PathJoin(Workspace, PathFrom(<<"a", "/", "s">>))].data = <<"s1">>}
    /\ todo_sources = 1..Len(graph.sources)
    /\ todo_targets = 1..Len(graph.targets)
    /\ source_digests = EmptyMap
    /\ rule_digests = EmptyMap
    /\ results = EmptyMap
    /\ writes = EmptyMap
    /\ output = NotRun
    /\ out_file = None
    /\ dep_file = None
    /\ exit_status = None
    /\ edit = None
    /\ output_before = NotRun
    /\ raw_hash = <<>>
    /\ parsed = NotRun
    /\ CallIdle
    /\ ImpactIdle

\* The command ends with an error: main prints it and exits with status 1.
ExitWithError ==
    /\ pc' = "exit"
    /\ exit_status' = Some(1)

\* The two checks of the arguments at the start of handle_generate_hashes.
CheckArgs ==
    /\ pc = "check"
    /\ IF args.content_hash_path = Some("missing") \/ args.fine_grained_both
       THEN ExitWithError
       ELSE pc' = "load" /\ exit_status' = exit_status
    /\ UNCHANGED <<impact_vars, hash_vars, change_vars, parse_vars, call_vars, args, out_file,
                   dep_file>>

\* generate_hashes up to the call of compute: the lists, the overlay, the
\* seed, the output base and the graph are loaded, or one of the loads fails.
LoadInputs ==
    /\ pc = "load"
    /\ \E loaded \in BOOLEAN :
           IF loaded
           THEN pc' = PcOfCompute(todo_sources, todo_targets) /\ output' = output
           ELSE pc' = "failed" /\ output' = Err("failed to load")
    /\ UNCHANGED <<graph, config, fs, todo_sources, todo_targets, source_digests,
                   rule_digests, results, writes, impact_vars, aux_vars>>

\* `generate_hashes(&config).await?` when the result is an error.
ExitOnFailure ==
    /\ pc = "failed"
    /\ ExitWithError
    /\ UNCHANGED <<impact_vars, hash_vars, change_vars, parse_vars, call_vars, args, out_file,
                   dep_file>>

\* The writer of the hash map: File::create on the output path, or stdout.
CreateOutput ==
    /\ pc = "done"
    /\ IF args.output_path = None
       THEN pc' = "write" /\ UNCHANGED <<out_file, exit_status>>
       ELSE \E created \in BOOLEAN :
                IF created
                THEN /\ out_file' = Some(Written(EmptyMap, FALSE))
                     /\ pc' = "write"
                     /\ exit_status' = exit_status
                ELSE ExitWithError /\ out_file' = out_file
    /\ UNCHANGED <<impact_vars, hash_vars, change_vars, parse_vars, call_vars, args, dep_file>>

\* serde_json::to_writer(writer, &result.hashes): the map is written, or the
\* write fails after a part of it.
WriteHashes ==
    /\ pc = "write"
    /\ \E written \in BOOLEAN :
           IF written
           THEN /\ out_file' = Some(Written(output.val.hashes, TRUE))
                /\ pc' = IF IsSome(args.dep_edges_file) THEN "create_dep" ELSE "finish"
                /\ exit_status' = exit_status
           ELSE /\ out_file' = Some(Written(output.val.hashes, FALSE))
                /\ ExitWithError
    /\ UNCHANGED <<impact_vars, hash_vars, change_vars, parse_vars, call_vars, args, dep_file>>

\* File::create on the dep-edges path.
CreateDepFile ==
    /\ pc = "create_dep"
    /\ \E created \in BOOLEAN :
           IF created
           THEN /\ dep_file' = Some(Written(EmptyMap, FALSE))
                /\ pc' = "write_dep"
                /\ exit_status' = exit_status
           ELSE ExitWithError /\ dep_file' = dep_file
    /\ UNCHANGED <<impact_vars, hash_vars, change_vars, parse_vars, call_vars, args, out_file>>

\* serde_json::to_writer(&mut file, &result.dep_edges) and file.flush()
WriteDepEdges ==
    /\ pc = "write_dep"
    /\ \E written \in BOOLEAN :
           IF written
           THEN /\ dep_file' = Some(Written(output.val.dep_edges, TRUE))
                /\ pc' = "finish"
                /\ exit_status' = exit_status
           ELSE /\ dep_file' = Some(Written(output.val.dep_edges, FALSE))
                /\ ExitWithError
    /\ UNCHANGED <<impact_vars, hash_vars, change_vars, parse_vars, call_vars, args, out_file>>

\* handle_generate_hashes returns Ok(()).
ReturnOk ==
    /\ pc = "finish"
    /\ pc' = "exit"
    /\ exit_status' = Some(0)
    /\ UNCHANGED <<impact_vars, hash_vars, change_vars, parse_vars, call_vars, args, out_file,
                   dep_file>>

NextCli ==
    \/ CheckArgs
    \/ LoadInputs
    \/ NextHash
    \/ ExitOnFailure
    \/ CreateOutput
    \/ WriteHashes
    \/ CreateDepFile
    \/ WriteDepEdges
    \/ ReturnOk

SpecCli == InitCli /\ [][NextCli]_vars

-----------------------------------------------------------------------------
(* Rules whose inputs are files that are no nodes of the graph             *)

\* The file a/u under the name '@//a:u'.
AtFileU == <<"@">> \o FileU

\* The file u of the external repository r, which is no node of the graph,
\* under its apparent and its canonical name.
ExtU == <<"@", "r", "/", "/", ":", "u">>

CanonU == <<"@", "@", "r", "+", "/", "/", ":", "u">>

\* RuleA lists up to MaxInputs labels among a rule, a hashed external source
\* and files that are no nodes of the graph.
SoftGraphs ==
    {[targets |-> <<RuleTarget(RuleA), RuleTarget(RuleB),
                    SourceTarget(SrcS), SourceTarget(ExtF)>>,
      rule_map |-> (RuleA :> RuleOf(RuleA, a)) @@ (RuleB :> RuleOf(RuleB, <<FileU>>)),
      sources |-> <<SourceTarget(SrcS), SourceTarget(ExtF)>>,
      use_cquery |-> c] :
     a \in InputLists({RuleB, ExtF, FileU, AtFileU, ExtU, CanonU}), c \in BOOLEAN}

SoftConfigs ==
    {[HashConfig EXCEPT !.fine_grained_external_repos = f, !.seed_hash = s] :
        f \in {{}, {<<"r">>}}, s \in {<<>>, <<"sd">>}}

\* The workspace files a/s and a/u, and the files f and u of the fetched
\* external repository r.
SoftFileSystems ==
    {(PathJoin(Workspace, PathFrom(<<"a", "/", "s">>)) :> FileOf(<<"s1">>, TRUE))
       @@ (PathJoin(Workspace, PathFrom(<<"a", "/", "u">>)) :> FileOf(<<"u1">>, TRUE))
       @@ ExternalFiles
       @@ (PathJoin(OutputBase, PathFrom(<<"external", "/", "r", "/", "u">>))
               :> FileOf(<<"u2">>, TRUE))}

InitSoft == InitHashWith(SoftGraphs, SoftConfigs, SoftFileSystems)

SpecSoft == InitSoft /\ [][NextHash]_vars

-----------------------------------------------------------------------------
(* transform_rule_input and BazelRule::rule_inputs called on their own     *)

\* The labels handed to transform_rule_input: none, one, two or three '@',
\* a repository that is empty, plain or canonical, and a remainder.
AtPrefixes == {<<>>, <<"@">>, <<"@", "@">>, <<"@", "@", "@">>}

LabelRepos == {<<>>, <<"r">>, <<"r", "+">>, <<"q">>}

LabelRemainders == {<<":", "l">>, <<"p", ":", "l">>, <<>>}

InputLabels ==
    {at \o repo \o SlashSlash \o rest :
        at \in AtPrefixes, repo \in LabelRepos, rest \in LabelRemainders}
    \cup {<<"@", "r">>, <<"r", ":", "l">>}

FineGrainedSets == SUBSET {<<"r">>, <<"r", "+">>}

\* The raw and the configured inputs of the rules handed to rule_inputs.
RawInputPool ==
    {RuleB, SrcS, <<"@", "r">> \o SlashSlash \o <<":", "l">>,
     <<"@", "@", "r">> \o SlashSlash \o <<":", "l">>,
     <<"@", "q">> \o SlashSlash \o <<":", "l">>}

ConfiguredInputPool ==
    {RuleB, <<"@", "@", "r", "+">> \o SlashSlash \o <<":", "l">>,
     <<"/", "/", "external", ":", "q">>}

SeqsUpTo(S, n) == UNION {[1..k -> S] : k \in 0..n}

InputRules ==
    {[RuleOf(RuleA, raw) EXCEPT !.configured_rule_inputs = configured] :
        raw \in SeqsUpTo(RawInputPool, MaxInputs),
        configured \in SeqsUpTo(ConfiguredInputPool, MaxInputs)}

InputCalls ==
    {[fn |-> "transform_rule_input", input |-> l, fine_grained |-> f] :
        l \in InputLabels, f \in FineGrainedSets}
    \cup {[fn |-> "rule_inputs", rule |-> r, use_cquery |-> c, fine_grained_repos |-> f] :
             r \in InputRules, c \in BOOLEAN, f \in FineGrainedSets}

InitCallWith(calls) ==
    /\ pc = "call"
    /\ call \in calls
    /\ ret = NotRun
    /\ edit = None
    /\ output_before = NotRun
    /\ raw_hash = <<>>
    /\ parsed = NotRun
    /\ args = <<>>
    /\ out_file = None
    /\ dep_file = None
    /\ exit_status = None
    /\ HashIdle
    /\ ImpactIdle

InitInputs == InitCallWith(InputCalls)

\* The call returns v.
Return(v) ==
    /\ ret' = v
    /\ pc' = "returned"
    /\ UNCHANGED <<call, impact_vars, hash_vars, change_vars, parse_vars, cli_vars>>

\* transform_rule_input(input, fine_grained)
CallTransformRuleInput ==
    /\ pc = "call"
    /\ call.fn = "transform_rule_input"
    /\ Return(TransformRuleInput(call.input, call.fine_grained))

\* rule.rule_inputs(use_cquery, fine_grained_repos)
CallRuleInputs ==
    /\ pc = "call"
    /\ call.fn = "rule_inputs"
    /\ Return(RuleInputs(call.rule, call.use_cquery, call.fine_grained_repos))

NextInputs == CallTransformRuleInput \/ CallRuleInputs

SpecInputs == InitInputs /\ [][NextInputs]_vars

-----------------------------------------------------------------------------
(* SourceFileHasher::digest called on its own                              *)

\* The canonical name of the file f of the external repository r.
CanonF == <<"@", "r", "+", "/", "/", ":", "f">>

DigestLabels == {SrcS, AliasS, ExtF, CanonF}

PathOfS == PathJoin(Workspace, PathFrom(<<"a", "/", "s">>))

\* a/s is missing, a file with one of two contents, an unreadable file or a
\* directory; the external repository r is fetched or not.
DigestFileSystems ==
    {s @@ e :
        s \in {EmptyMap, PathOfS :> FileOf(<<"s1">>, TRUE), PathOfS :> FileOf(<<"s2">>, TRUE),
               PathOfS :> FileOf(<<"s1">>, FALSE), PathOfS :> DirEntry},
        e \in {EmptyMap, ExternalFiles}}

\* The modified-files list: empty, a/s as a relative or as an absolute path,
\* or another file.
ModifiedLists ==
    {{}, {PathFrom(<<"a", "/", "s">>)}, {PathOfS}, {PathFrom(<<"b", "/", "t">>)},
     {PathFrom(<<"b", "/", "t">>),
      PathJoin(OutputBase, PathFrom(<<"external", "/", "r", "/", "f">>))}}

\* The overlay: none, or one entry for a/s, for another file or for the file
\* of the external repository.
Overlays ==
    {None, Some(<<"a", "/", "s">> :> <<"ov">>), Some(<<"b", "/", "t">> :> <<"ov">>),
     Some(<<"external", "/", "r", "/", "f">> :> <<"ov">>)}

DigestConfigs ==
    {[HashConfig EXCEPT !.content_hashes = o,
                        !.modified_filepaths = m,
                        !.fine_grained_external_repos = f,
                        !.resolver.query = q] :
        o \in Overlays, m \in ModifiedLists, f \in {{}, {<<"r">>}}, q \in EmitQueries}

DigestCalls ==
    {[fn |-> "digest", cfg |-> c, files |-> f, label |-> l, seed |-> s] :
        c \in DigestConfigs, f \in DigestFileSystems, l \in DigestLabels,
        s \in {<<>>, <<"sd">>}}

InitDigest == InitCallWith(DigestCalls)

\* source_hasher.digest(label, seed)
CallDigest ==
    /\ pc = "call"
    /\ call.fn = "digest"
    /\ Return(SourceFileHasherDigest(call.cfg, call.files, call.label, call.seed))

NextDigest == CallDigest

SpecDigest == InitDigest /\ [][NextDigest]_vars

-----------------------------------------------------------------------------
(* ExternalRepoResolver::resolve called on its own                         *)

ExternalRoot == PathJoin(OutputBase, <<<<"external">>>>)

\* The first line the locate query prints: a location below the external
\* root, the external root itself, a location elsewhere, or a line without
\* the separator of a location.
LineBelowRoot ==
    <<"/", "o", "/", "external", "/", "x", "+", "/", "B", ":", " ", "t">>

BareLineBelowRoot == <<"/", "o", "/", "external", "/", "x">>

LocateLines ==
    {LineBelowRoot,
     <<"/", "o", "/", "external", ":", " ", "t">>,
     <<"/", "e", "/", "x", "/", "B", ":", " ", "t">>,
     BareLineBelowRoot}

\* The locate query cannot be started, exits with an error, prints nothing,
\* or prints a first line.
LocateOutcomes ==
    {[spawned |-> FALSE, success |-> FALSE, stdout |-> None],
     [spawned |-> TRUE, success |-> FALSE, stdout |-> None],
     [spawned |-> TRUE, success |-> TRUE, stdout |-> None]}
    \cup {[spawned |-> TRUE, success |-> TRUE, stdout |-> Some(l)] : l \in LocateLines}

ResolvedRepos == {<<"r">>, <<"q">>, <<"r", "+">>}

\* The directories below the external root that exist.
FetchedRepos ==
    {[p \in dirs |-> DirEntry] :
        dirs \in SUBSET {PathJoin(ExternalRoot, <<<<"r">>>>),
                         PathJoin(ExternalRoot, <<<<"r", "+">>>>)}}

ResolveCalls ==
    {[fn |-> "resolve",
      resolver |-> [HashConfig.resolver EXCEPT !.query = repo :> o],
      files |-> f, repo |-> repo] :
        repo \in ResolvedRepos, o \in LocateOutcomes, f \in FetchedRepos}

InitResolve == InitCallWith(ResolveCalls)

\* resolver.resolve(repo)
CallResolve ==
    /\ pc = "call"
    /\ call.fn = "resolve"
    /\ Return(ExternalRepoResolverResolve(call.resolver, call.files, call.repo))

NextResolve == CallResolve

SpecResolve == InitResolve /\ [][NextResolve]_vars

-----------------------------------------------------------------------------
(* The seed file list and the modified-files list: compute_seed_hash and   *)
(* load_path_list                                                          *)

RECURSIVE LinesFrom(_, _)
\* BufRead::lines: the text is cut at every newline; a newline at the end of
\* the text starts no further line.  cur is the line read so far.
LinesFrom(text, cur) ==
    IF text = <<>> THEN (IF cur = <<>> THEN <<>> ELSE <<cur>>)
    ELSE IF text[1] = "\n" THEN <<cur>> \o LinesFrom(Tail(text), <<>>)
    ELSE LinesFrom(Tail(text), Append(cur, text[1]))

Lines(text) == LinesFrom(text, <<>>)

\* str::trim, the only whitespace of the model being the space.
Trim(s) ==
    LET kept == {i \in 1..Len(s) : s[i] # " "}
    IN  IF kept = {} THEN <<>>
        ELSE SubSeq(s, SetMin(kept), CHOOSE i \in kept : \A j \in kept : j <= i)

\* std::fs::read and File::open succeed on a readable regular file.
CanRead(files, path) == IsFile(files, path) /\ files[path].readable

\* The loop of compute_seed_hash over the lines of the list: every line as it
\* stands is the path of a file whose bytes are fed into the hasher.
SeedOfLines(files, lines) ==
    IF \E i \in 1..Len(lines) : ~CanRead(files, PathFrom(lines[i]))
    THEN Err("failed to read seed file")
    ELSE Ok(Sha256(Concat([i \in 1..Len(lines) |-> files[PathFrom(lines[i])].data])))

\* compute_seed_hash(path)
ComputeSeedHash(files, path) ==
    IF path = None THEN Ok(<<>>)
    ELSE IF ~CanRead(files, Unwrap(path)) THEN Err("failed to open seed file list")
    ELSE SeedOfLines(files, Lines(files[Unwrap(path)].data))

\* The loop of load_path_list: lines that are empty after trimming are
\* skipped, the others are inserted trimmed.
PathsOfLines(lines) ==
    {PathFrom(Trim(lines[i])) : i \in {j \in 1..Len(lines) : Trim(lines[j]) # <<>>}}

\* load_path_list(path)
LoadPathList(files, path) ==
    IF path = None THEN Ok({})
    ELSE IF ~CanRead(files, Unwrap(path)) THEN Err("failed to open path list")
    ELSE Ok(PathsOfLines(Lines(files[Unwrap(path)].data)))

\* The longest list file of the model, in characters.
MaxListLen == 4

\* The list file names the files f and g, one per line.
ListTexts == UNION {[1..n -> {"f", "g", " ", "\n"}] : n \in 0..MaxListLen}

ListPath == PathFrom(<<"l">>)

\* The list file, the file f, and the file g that may be unreadable.
ListFileSystems ==
    {(ListPath :> FileOf(t, TRUE))
       @@ (PathFrom(<<"f">>) :> FileOf(<<"f1">>, TRUE))
       @@ (PathFrom(<<"g">>) :> FileOf(<<"g1">>, r)) :
     t \in ListTexts, r \in BOOLEAN}

ListCalls ==
    {[fn |-> n, files |-> f, path |-> p] :
        n \in {"compute_seed_hash", "load_path_list"}, f \in ListFileSystems,
        p \in {Some(ListPath)}}
    \cup {[fn |-> n, files |-> EmptyMap, path |-> p] :
             n \in {"compute_seed_hash", "load_path_list"},
             p \in {None, Some(ListPath)}}

InitLists == InitCallWith(ListCalls)

CallComputeSeedHash ==
    /\ pc = "call"
    /\ call.fn = "compute_seed_hash"
    /\ Return(ComputeSeedHash(call.files, call.path))

CallLoadPathList ==
    /\ pc = "call"
    /\ call.fn = "load_path_list"
    /\ Return(LoadPathList(call.files, call.path))

NextLists == CallComputeSeedHash \/ CallLoadPathList

SpecLists == InitLists /\ [][NextLists]_vars

-----------------------------------------------------------------------------
(* Properties of the impact analyzer                                       *)

ImpactedSet == {impacted.val[i] : i \in 1..Len(impacted.val)}

AllLabels == DOMAIN start_hashes \cup DOMAIN final_hashes

InBoth(l) == l \in DOMAIN start_hashes /\ l \in DOMAIN final_hashes

\* The label is missing from one map, or its raw strings differ.
RawDiffers(l) == ~InBoth(l) \/ start_hashes[l].raw # final_hashes[l].raw

ChangedSet == {l \in AllLabels : RawDiffers(l)}

\* compute_impacted_targets has returned.
ImpactedRan == pc # "start"

\* compute_distances has returned.
DistancesRan == distances # NotRun

\* C1: without a type filter compute_impacted_targets succeeds and returns
\* exactly the labels of keys(start) \cup keys(final) that are missing from
\* one map or whose raw strings differ; a label with the same raw string on
\* both sides is not returned.
C1_ImpactedIsExactlyChanged ==
    (ImpactedRan /\ target_types = None) =>
        /\ impacted.ok
        /\ ImpactedSet = ChangedSet
        /\ \A l \in AllLabels :
               (InBoth(l) /\ start_hashes[l].raw = final_hashes[l].raw) => l \notin ImpactedSet

\* An added, a removed-or-changed and an unchanged label in one unfiltered run.
C1_Witness ==
    /\ ImpactedRan /\ target_types = None /\ impacted.ok
    /\ \E l \in ImpactedSet : l \notin DOMAIN start_hashes
    /\ \E l \in ImpactedSet : InBoth(l)
    /\ \E l \in AllLabels : InBoth(l) /\ l \notin ImpactedSet

C4Rank(l) ==
    LET t == TargetTypeForLabel(l, start_hashes, final_hashes) IN
    IF t = Some(<<"SourceFile">>) THEN 0
    ELSE IF t = Some(<<"GeneratedFile">>) THEN 1
    ELSE IF t = Some(<<"Rule">>) THEN 2
    ELSE IF t # None THEN 3
    ELSE 4

C4Less(a, b) ==
    \/ C4Rank(a) < C4Rank(b)
    \/ C4Rank(a) = C4Rank(b) /\ StrCmp(a, b) < 0

\* C4: the list compute_impacted_targets returns is strictly increasing under
\* (type-rank, label), SourceFile=0, GeneratedFile=1, Rule=2, other kind=3,
\* no kind=4, labels compared bytewise inside a rank; no label occurs twice.
C4_ImpactedStrictlySorted ==
    (ImpactedRan /\ impacted.ok) =>
        /\ \A i \in 1..(Len(impacted.val) - 1) : C4Less(impacted.val[i], impacted.val[i + 1])
        /\ \A i, j \in 1..Len(impacted.val) : i # j => impacted.val[i] # impacted.val[j]

\* Three labels of three ranks are returned, and the rank puts a greater label
\* before a smaller one.
C4_Witness ==
    /\ ImpactedRan /\ impacted.ok /\ Len(impacted.val) = 3
    /\ C4Rank(impacted.val[1]) < C4Rank(impacted.val[2])
    /\ C4Rank(impacted.val[2]) < C4Rank(impacted.val[3])
    /\ StrCmp(impacted.val[1], impacted.val[2]) > 0

\* The hash the type filter looks at: the final entry, else the starting one.
C8Hash(l) == IF l \in DOMAIN final_hashes THEN final_hashes[l] ELSE start_hashes[l]

C8LacksKind == \E l \in ChangedSet : C8Hash(l).target_type = None

\* C8: with a type filter, compute_impacted_targets fails if the hash of any
\* impacted label has no 'kind#' prefix; otherwise it returns exactly the
\* impacted labels whose kind is in the filter.
C8_TypeFilter ==
    (ImpactedRan /\ target_types # None) =>
        /\ C8LacksKind => (~impacted.ok /\ pc = "failed")
        /\ ~C8LacksKind =>
               /\ impacted.ok
               /\ ImpactedSet =
                      {l \in ChangedSet : Unwrap(C8Hash(l).target_type) \in Unwrap(target_types)}

\* A filtered run fails on a label without kind although another impacted
\* label has a kind the filter allows.
C8_Witness ==
    /\ ImpactedRan /\ target_types # None /\ pc = "failed"
    /\ \E l \in ChangedSet : C8Hash(l).target_type = None
    /\ \E l \in ChangedSet :
           /\ C8Hash(l).target_type # None
           /\ Unwrap(C8Hash(l).target_type) \in Unwrap(target_types)

\* The label is on one side only, or a direct hash is absent or they differ.
C3DirectCondition(l) ==
    \/ ~InBoth(l)
    \/ start_hashes[l].direct_hash = None
    \/ final_hashes[l].direct_hash = None
    \/ start_hashes[l].direct_hash # final_hashes[l].direct_hash

\* C3: compute_distances classifies an impacted label Direct, and gives it the
\* distance (0, 0), iff it is in one map only, or its direct hash is absent on
\* a side, or the direct hashes differ; it classifies it Indirect iff both
\* sides are present with equal direct hashes.
C3_Classification ==
    DistancesRan =>
        /\ DOMAIN kind_by_label = ImpactedSet
        /\ \A l \in ImpactedSet :
               /\ kind_by_label[l] = "Direct" <=> C3DirectCondition(l)
               /\ kind_by_label[l] = "Indirect" <=> ~C3DirectCondition(l)
        /\ distances.ok =>
               \A i \in 1..Len(distances.val) :
                   LET d == distances.val[i] IN
                   C3DirectCondition(d.label) <=>
                       (d.target_distance = 0 /\ d.package_distance = 0)

\* A successful run with an indirect label, a label on one side only and a
\* label both of whose sides are present but one without direct hash.
C3_Witness ==
    /\ DistancesRan /\ distances.ok
    /\ \E l \in ImpactedSet : kind_by_label[l] = "Indirect"
    /\ \E l \in ImpactedSet : kind_by_label[l] = "Direct" /\ ~InBoth(l)
    /\ \E l \in ImpactedSet :
           /\ kind_by_label[l] = "Direct" /\ InBoth(l)
           /\ start_hashes[l].direct_hash = None \/ final_hashes[l].direct_hash = None

\* The dep list of a label as a set; empty without entry.
DepsOf(l) ==
    IF IsSome(dep_edges) /\ l \in DOMAIN Unwrap(dep_edges)
    THEN {Unwrap(dep_edges)[l][i] : i \in 1..Len(Unwrap(dep_edges)[l])}
    ELSE {}

HasEntry(l) == IsSome(dep_edges) /\ l \in DOMAIN Unwrap(dep_edges)

IndirectSet == {l \in ImpactedSet : ~C3DirectCondition(l)}

DirectSet == {l \in ImpactedSet : C3DirectCondition(l)}

\* The distance record compute_distances returned for a label.
DistanceOf(l) == distances.val[CHOOSE i \in 1..Len(distances.val) : distances.val[i].label = l]

RECURSIVE ReachableIn(_, _, _)
\* The labels of S reached from a label of front by one or more dep edges
\* that stay in S.
ReachableIn(front, seen, S) ==
    LET next == (UNION {DepsOf(l) : l \in front} \cap S) \ seen
    IN  IF next = {} THEN seen ELSE ReachableIn(next, seen \cup next, S)

\* The dep edges among the labels of S contain a cycle.
CycleWithin(S) == \E l \in S : l \in ReachableIn({l}, {}, S)

RECURSIVE Hops(_, _, _, _)
\* The least number of dep edges from a label of front to a label of goal
\* along paths whose inner labels are in through; -1 if there is no such path.
Hops(front, seen, goal, through) ==
    IF front \cap goal # {} THEN 0
    ELSE LET next == (UNION {DepsOf(l) : l \in front} \cap (through \cup goal)) \ seen
         IN  IF next = {} THEN -1
             ELSE LET h == Hops(next, seen \cup next, goal, through)
                  IN  IF h = -1 THEN -1 ELSE h + 1

\* Every label a dep-edges file names.
GraphLabels == AllLabels \cup UNION {DepsOf(l) : l \in AllLabels}

\* C2 as stated: targetDistance(L) of an indirect label is 1 + the least
\* targetDistance of its impacted deps and is the least number of dep-edge hops
\* from L to a directly impacted label in the dep graph.
C2_TargetDistanceIsHopsInGraph ==
    (DistancesRan /\ distances.ok) =>
        \A l \in IndirectSet :
            /\ DistanceOf(l).target_distance =
                   1 + SetMin({DistanceOf(d).target_distance : d \in DepsOf(l) \cap ImpactedSet})
            /\ DistanceOf(l).target_distance = Hops({l}, {l}, DirectSet, GraphLabels)

\* C2, amended: targetDistance(L) of an indirect label is 1 + the least
\* targetDistance of its impacted deps, so it is at most targetDistance(D) + 1
\* for every impacted dep D, and it is the least number of dep-edge hops from
\* L to a directly impacted label along paths through impacted labels only.
C2_TargetDistanceIsHopsThroughImpacted ==
    (DistancesRan /\ distances.ok) =>
        \A l \in IndirectSet :
            /\ DistanceOf(l).target_distance =
                   1 + SetMin({DistanceOf(d).target_distance : d \in DepsOf(l) \cap ImpactedSet})
            /\ \A d \in DepsOf(l) \cap ImpactedSet :
                   DistanceOf(l).target_distance <= DistanceOf(d).target_distance + 1
            /\ DistanceOf(l).target_distance = Hops({l}, {l}, DirectSet, ImpactedSet)

\* An indirect label three hops from a direct one, with a nearer and a farther
\* impacted dep.
C2_Witness ==
    /\ DistancesRan /\ distances.ok
    /\ \E l \in IndirectSet :
           /\ DistanceOf(l).target_distance = 3
           /\ \E d \in DepsOf(l) \cap ImpactedSet :
                  DistanceOf(d).target_distance > 2

\* The part of a label before its first ':'.
C5Package(l) ==
    IF \E i \in 1..Len(l) : l[i] = ":"
    THEN SubSeq(l, 1, SetMin({i \in 1..Len(l) : l[i] = ":"}) - 1)
    ELSE l

C5Step(l, d) == DistanceOf(d).package_distance + (IF C5Package(l) # C5Package(d) THEN 1 ELSE 0)

\* C5: packageDistance(L) of an indirect label is the least, over its impacted
\* deps D, of packageDistance(D) + (1 if the parts of L and D before the first
\* ':' differ, else 0), whichever dep gives the least targetDistance.
C5_PackageDistance ==
    (DistancesRan /\ distances.ok) =>
        \A l \in IndirectSet :
            DistanceOf(l).package_distance =
                SetMin({C5Step(l, d) : d \in DepsOf(l) \cap ImpactedSet})

\* The dep that gives the least packageDistance is not one that gives the
\* least targetDistance.
C5_Witness ==
    /\ DistancesRan /\ distances.ok
    /\ \E l \in IndirectSet :
           \A d \in DepsOf(l) \cap ImpactedSet :
               DistanceOf(d).target_distance + 1 = DistanceOf(l).target_distance
                   => C5Step(l, d) > DistanceOf(l).package_distance

\* An indirect label without dep entry, or with an entry naming no impacted label.
C6Stranded(l) == l \in IndirectSet /\ (~HasEntry(l) \/ DepsOf(l) \cap ImpactedSet = {})

\* C6: compute_distances fails and returns no distance list whenever an
\* impacted label is Indirect and has no dep-edges entry or an entry none of
\* whose labels is impacted.
C6_StrandedIndirectFails ==
    DistancesRan =>
        ((\E l \in ImpactedSet : C6Stranded(l)) =>
            (~distances.ok /\ distances.val = <<>> /\ pc = "failed"))

\* The run fails on an indirect label whose entry names only labels that are
\* not impacted, although every indirect label has an entry.
C6_Witness ==
    /\ DistancesRan /\ distances.err = "no impacted dependencies"
    /\ \A l \in IndirectSet : HasEntry(l)
    /\ \E l \in IndirectSet : DepsOf(l) # {} /\ DepsOf(l) \cap ImpactedSet = {}

\* C7 as stated: a cycle in the dep edges among impacted labels makes the
\* distance computation fail.
C7_ImpactedCycleFails ==
    DistancesRan => (CycleWithin(ImpactedSet) => ~distances.ok)

\* C7, amended: a cycle in the dep edges among indirectly impacted labels
\* makes the distance computation fail, with the cycle error or with the error
\* of an indirect label met before; the cycle error is raised only for such a
\* cycle; and the walk never nests deeper than MaxWalkDepth calls.
C7_IndirectCycleFails ==
    DistancesRan =>
        /\ CycleWithin(IndirectSet) =>
               /\ ~distances.ok /\ pc = "failed"
               /\ distances.err \in {"cycle detected", "no dependencies in dep graph",
                                     "no impacted dependencies"}
        /\ distances.err = "cycle detected" => CycleWithin(IndirectSet)
        /\ distances.err # "diverged"

\* The walk meets a cycle of two distinct indirect labels.
C7_Witness ==
    /\ DistancesRan /\ distances.err = "cycle detected"
    /\ \E a, b \in IndirectSet : a # b /\ b \in DepsOf(a) /\ a \in DepsOf(b)

-----------------------------------------------------------------------------
(* Properties of the hash engine                                           *)

HashRan == pc \in {"done", "failed"} /\ output # NotRun

\* The source digests the first loop leaves, in the order of the vector.
SourceDigestsOf(g, cfg, files) == SourceLoop(g, cfg, files, Ok(EmptyMap), 1).val

\* The result of one target hashed on its own: no rule has been memoised and
\* no file input has been cached.
AloneResult(i) ==
    TargetStep(graph, config, fs,
               [source_digests |-> SourceDigestsOf(graph, config, fs),
                rule_digests |-> EmptyMap, writes |-> SourceWrites(graph),
                results |-> EmptyMap], i)

\* The index of the target with a label.
TargetIndex(label) ==
    CHOOSE i \in 1..Len(graph.targets) : graph.targets[i].name = label

\* C9: a run that visits the nodes in any order gives the result of the run
\* in the order of the vectors (the same two maps, or both fail), and each
\* result held during the run is the one its target gets when it is hashed on
\* its own, whichever rule memoised its dependencies first.
C9_OrderIndependent ==
    /\ HashRan =>
           /\ output.ok = HashEngineCompute(graph, config, fs).ok
           /\ output.ok => output.val = HashEngineCompute(graph, config, fs).val
    /\ \A l \in DOMAIN results :
           /\ AloneResult(TargetIndex(l)).ok
           /\ results[l] = AloneResult(TargetIndex(l)).st.results[l]

\* RuleB was visited before RuleA, lists RuleA and a file FileU, and so
\* memoised RuleA and cached FileU before RuleA's own visit.
C9_Witness ==
    /\ pc = "targets"
    /\ 1 \in todo_targets /\ 2 \notin todo_targets
    /\ RuleB \in DOMAIN results
    /\ RuleA \in DOMAIN rule_digests
    /\ FileU \in DOMAIN source_digests

\* The rules a rule lists among its effective inputs.
RuleDeps(name) ==
    {d \in DOMAIN graph.rule_map :
        \E i \in 1..Len(RuleInputs(graph.rule_map[name], graph.use_cquery,
                                   config.fine_grained_external_repos)) :
            RuleInputs(graph.rule_map[name], graph.use_cquery,
                       config.fine_grained_external_repos)[i] = d}

RECURSIVE RulesReached(_, _, _)
\* The rules reached from front by one or more rule inputs; a rule's input
\* that names the rule itself counts iff with_self.
RulesReached(front, seen, with_self) ==
    LET next == UNION {{d \in RuleDeps(r) : with_self \/ d # r} : r \in front} \ seen
    IN  IF next = {} THEN seen ELSE RulesReached(next, seen \cup next, with_self)

\* The rules that lie on a dependency cycle.
OnCycle(with_self) ==
    {r \in DOMAIN graph.rule_map : r \in RulesReached({r}, {}, with_self)}

\* The rules whose traversal meets a cycle.
MeetsCycle(with_self) ==
    {r \in DOMAIN graph.rule_map :
        (RulesReached({r}, {}, with_self) \cup {r}) \cap OnCycle(with_self) # {}}

CircularDependency == "Circular dependency detected"

\* C10 as stated: if the rules contain a dependency cycle through their rule
\* inputs, compute fails and returns no hash map: no run gets past the loop
\* over the targets.
C10_RuleCycleFails ==
    (graph # <<>> /\ OnCycle(TRUE) # {}) =>
        /\ pc \notin {"emit", "done"}
        /\ ~output.ok

\* C10, amended: if the rules contain a dependency cycle through two or more
\* distinct rules, compute never reaches its result and returns no map,
\* whichever node the traversal starts from: no rule that meets the cycle is
\* ever hashed, and the run fails with the circular-dependency error unless a
\* source or a generated file without generating rule fails first.  A rule
\* that lists itself is no cycle, and the circular-dependency error is raised
\* only for a cycle through distinct rules.
C10_DistinctRuleCycleFails ==
    /\ (graph # <<>> /\ OnCycle(FALSE) # {}) =>
           /\ pc \notin {"emit", "done"}
           /\ \A r \in MeetsCycle(FALSE) :
                  r \notin DOMAIN rule_digests /\ r \notin DOMAIN results
           /\ pc = "failed" =>
                  /\ ~output.ok /\ output.val = <<>>
                  /\ output.err \in {CircularDependency, "failed to hash source",
                                     "Missing generating rule"}
    /\ (pc = "failed" /\ output.err = CircularDependency) => OnCycle(FALSE) # {}
    /\ output.err # "diverged"

\* The run fails on the cycle RuleA -> RuleB -> RuleA after RuleC, which is
\* not on it and lists itself, was hashed.
C10_Witness ==
    /\ pc = "failed" /\ output.err = CircularDependency
    /\ OnCycle(FALSE) = {RuleA, RuleB}
    /\ RuleC \in OnCycle(TRUE)
    /\ RuleC \in DOMAIN results


-----------------------------------------------------------------------------
(* Properties of two runs around one change                                *)

Range(seq) == {seq[i] : i \in 1..Len(seq)}

\* Both runs have emitted their maps.
BothRuns == pc = "done" /\ IsSome(edit) /\ output_before.ok /\ output.ok

\* The runs differ in the bytes of the source file S only.
SourceEdited(S) ==
    BothRuns /\ Unwrap(edit).kind = "source" /\ Unwrap(edit).label = S

\* The runs differ in the serialized bytes of one attribute only.
AttributeEdited == BothRuns /\ Unwrap(edit).kind = "attribute"

SourceNames == {graph.sources[i].name : i \in 1..Len(graph.sources)}

RuleNames == DOMAIN graph.rule_map

\* The overall part of the rendered hash of a label.
OverallIn(hashes, label) == Unwrap(Parse(hashes[label])).transitive_hash

\* The direct part of the rendered hash of a label.
DirectIn(hashes, label) == Unwrap(Unwrap(Parse(hashes[label])).direct_hash)

\* No overlay entry for S and an empty modified-files list.
Unmasked(S) ==
    /\ config.modified_filepaths = {}
    /\ \/ config.content_hashes = None
       \/ Unwrap(ResolveMainRepo(S, config.resolver.workspace)).workspace_relative
              \notin DOMAIN Unwrap(config.content_hashes)

\* The inputs the rule hasher walks for a rule.
EffectiveInputs(name) ==
    RuleInputs(graph.rule_map[name], graph.use_cquery,
               config.fine_grained_external_repos)

\* The rule_inputs field of a rule as the graph holds it.
RawInputs(name) == graph.rule_map[name].rule_inputs

\* The rules that list S or a rule of X; raw chooses the raw rule_inputs.
DependentsStep(S, X, raw) ==
    {r \in RuleNames :
        \E x \in Range(IF raw THEN RawInputs(r) ELSE EffectiveInputs(r)) :
            x = S \/ x \in X}

\* The rules that reach S through a chain of inputs naming rules (there are
\* three rules, so three steps close the set).
Dependents(S, raw) ==
    DependentsStep(S, DependentsStep(S, DependentsStep(S, {}, raw), raw), raw)

\* C11 as stated: after a change of the bytes of an unmasked source file S,
\* the emitted hash of S and the overall hash of every rule that reaches S
\* through a chain of rule_inputs entries have changed.
C11_RawChainChanges ==
    \A S \in SourceNames :
        (SourceEdited(S) /\ Unmasked(S)) =>
            /\ output_before.val.hashes[S] # output.val.hashes[S]
            /\ \A R \in Dependents(S, TRUE) :
                   OverallIn(output_before.val.hashes, R)
                       # OverallIn(output.val.hashes, R)

\* C11, amended: after a change of the bytes of an unmasked source file S,
\* the emitted hash of S and the overall hash of every rule that reaches S
\* through a chain of the inputs the rule hasher walks (BazelRule::rule_inputs:
\* in configured mode the configured inputs and the transformed raw inputs)
\* have changed.
C11_EffectiveChainChanges ==
    \A S \in SourceNames :
        (SourceEdited(S) /\ Unmasked(S)) =>
            /\ output_before.val.hashes[S] # output.val.hashes[S]
            /\ \A R \in Dependents(S, FALSE) :
                   OverallIn(output_before.val.hashes, R)
                       # OverallIn(output.val.hashes, R)

\* A rule reaches the changed source through another rule only.
C11_Witness ==
    \E S \in SourceNames :
        /\ SourceEdited(S)
        /\ Unmasked(S)
        /\ \E R \in Dependents(S, FALSE) : S \notin Range(EffectiveInputs(R))

\* The rule has an input that is hashed from the file of S.
ReadsFileOf(R, S) ==
    \E x \in Range(EffectiveInputs(R)) :
        /\ IsSome(ResolveMainRepo(x, config.resolver.workspace))
        /\ Unwrap(ResolveMainRepo(x, config.resolver.workspace)).absolute = FileOfLabel(S)

\* C12 as stated: a change of the bytes of a source file S leaves the direct
\* hash of every rule unchanged.
C12_EveryDirectUnchanged ==
    \A S \in SourceNames :
        SourceEdited(S) =>
            \A R \in RuleNames :
                DirectIn(output_before.val.hashes, R) = DirectIn(output.val.hashes, R)

\* C12, amended: a change of the bytes of a source file S leaves the direct
\* hash unchanged for every rule none of whose inputs is hashed from the file
\* of S, and changes the direct hash of every rule that lists S when S is
\* unmasked.
C12_DirectOfOtherRulesUnchanged ==
    \A S \in SourceNames :
        SourceEdited(S) =>
            \A R \in RuleNames :
                /\ ~ReadsFileOf(R, S) =>
                       DirectIn(output_before.val.hashes, R)
                           = DirectIn(output.val.hashes, R)
                /\ (Unmasked(S) /\ S \in Range(EffectiveInputs(R))) =>
                       DirectIn(output_before.val.hashes, R)
                           # DirectIn(output.val.hashes, R)

\* One rule lists the changed source, another reaches it through that rule
\* without reading the file.
C12_Witness ==
    /\ SourceEdited(SrcS)
    /\ Unmasked(SrcS)
    /\ SrcS \in Range(EffectiveInputs(RuleB))
    /\ RuleA \in Dependents(SrcS, FALSE)
    /\ ~ReadsFileOf(RuleA, SrcS)

\* C13: a change of the serialized bytes of an attribute whose name is
\* ignored (a caller-supplied name or generator_location) leaves every
\* emitted hash, direct and overall, of every node unchanged.
C13_IgnoredAttributeFrame ==
    (AttributeEdited
        /\ Unwrap(edit).attribute \in CallerIgnoredAttrs \cup {<<"generator_location">>})
        => output.val = output_before.val

\* The bytes of the caller-ignored attribute of a rule with dependents changed.
C13_Witness ==
    /\ AttributeEdited
    /\ Unwrap(edit).attribute \in CallerIgnoredAttrs
    /\ \E R \in RuleNames : Unwrap(edit).label \in Range(EffectiveInputs(R))

-----------------------------------------------------------------------------
(* Properties of the emitted maps                                          *)

\* The digest the engine holds for an emitted label: the result of a rule or
\* generated file, the digest of a source.
EmittedDigest(L) ==
    IF L \in DOMAIN results
    THEN [overall |-> results[L].overall, direct |-> results[L].direct]
    ELSE [overall |-> TargetDigestFromSource(source_digests[L], config.seed_hash).overall,
          direct |-> TargetDigestFromSource(source_digests[L], config.seed_hash).direct]

EmittedKind(L) == IF L \in DOMAIN results THEN results[L].kind ELSE "SourceFile"

\* The fields of a parsed hash written back in the format of the output.
RenderParsed(p) ==
    (IF IsSome(p.target_type) THEN Unwrap(p.target_type) \o <<"#">> ELSE <<>>)
        \o p.transitive_hash
        \o (IF IsSome(p.direct_hash) THEN <<"~">> \o Unwrap(p.direct_hash) ELSE <<>>)

\* C14: every emitted string parses; the parsed target type is the kind of
\* the node when kinds are included and none otherwise, the parsed hashes are
\* the hex encodings of the overall and the direct digest, and the parsed
\* fields rendered back give the emitted string.
C14_EmittedHashRoundTrip ==
    pc = "done" =>
        \A L \in DOMAIN output.val.hashes :
            /\ IsSome(Parse(output.val.hashes[L]))
            /\ Unwrap(Parse(output.val.hashes[L])).target_type
                   = (IF config.include_target_type THEN Some(<<EmittedKind(L)>>) ELSE None)
            /\ Unwrap(Parse(output.val.hashes[L])).transitive_hash
                   = HexEncode(EmittedDigest(L).overall)
            /\ Unwrap(Parse(output.val.hashes[L])).direct_hash
                   = Some(HexEncode(EmittedDigest(L).direct))
            /\ RenderParsed(Unwrap(Parse(output.val.hashes[L]))) = output.val.hashes[L]

\* A run without kinds emits the hashes of a source whose bytes hold '#' and
\* '~' and of a rule that lists it.
C14_Witness ==
    /\ pc = "done"
    /\ ~config.include_target_type
    /\ {SrcS, RuleA} \subseteq DOMAIN output.val.hashes
    /\ \E i \in 1..Len(source_digests[SrcS]) : source_digests[SrcS][i] = "#"

\* A label of an external repository that is not in the fine-grained set.
GatedExternal(label) ==
    /\ IsSome(SplitExternalLabel(label))
    /\ ResolveMainRepo(label, config.resolver.workspace) = None
    /\ TrimRepoName(Unwrap(SplitExternalLabel(label)).repo)
           \notin config.fine_grained_external_repos

\* C16: the digest of a source with an external label whose repository is
\* not fine-grained is the digest of the empty input, whatever the seed, the
\* files on disk and the outcome of the resolver's query; hashing it never
\* fails.
C16_GatedExternalDigest ==
    /\ \A i \in 1..Len(graph.sources) :
           (GatedExternal(graph.sources[i].name)
                /\ graph.sources[i].name \in DOMAIN source_digests)
               => source_digests[graph.sources[i].name] = Sha256(<<>>)
    /\ (\A i \in 1..Len(graph.sources) : GatedExternal(graph.sources[i].name))
           => ~(pc = "failed" /\ todo_sources # {})

\* The source @r//:f is hashed while r is not fine-grained, its file is on
\* disk and the resolver's query cannot be run.
C16_Witness ==
    /\ ExtF \in DOMAIN source_digests
    /\ GatedExternal(ExtF)
    /\ IsFile(fs, PathJoin(OutputBase, PathFrom(<<"external", "/", "r", "/", "f">>)))
    /\ <<"r">> \in DOMAIN config.resolver.query

\* The generated files of the graph.
GeneratedTargets ==
    {graph.targets[i] : i \in {j \in 1..Len(graph.targets) : graph.targets[j].kind = "Generated"}}

\* C17: an emitted generated file has the overall and the direct hash of its
\* generating rule, and a run on a graph with a generated file whose
\* generating rule is no rule of the graph fails without returning a map.
C17_GeneratedEqualsRule ==
    /\ pc = "done" =>
           \A g \in GeneratedTargets :
               g.name \in DOMAIN output.val.hashes =>
                   /\ OverallIn(output.val.hashes, g.name)
                          = HexEncode(rule_digests[g.generating_rule].overall)
                   /\ DirectIn(output.val.hashes, g.name)
                          = HexEncode(rule_digests[g.generating_rule].direct)
                   /\ g.generating_rule \in DOMAIN output.val.hashes =>
                          /\ OverallIn(output.val.hashes, g.name)
                                 = OverallIn(output.val.hashes, g.generating_rule)
                          /\ DirectIn(output.val.hashes, g.name)
                                 = DirectIn(output.val.hashes, g.generating_rule)
    /\ (graph # <<>> /\ \E g \in GeneratedTargets :
                            g.generating_rule \notin DOMAIN graph.rule_map)
           => (pc \notin {"emit", "done"} /\ ~output.ok)

\* A generated file and its generating rule are both emitted.
C17_Witness ==
    /\ pc = "done"
    /\ \E g \in GeneratedTargets : {g.name, g.generating_rule} \subseteq DOMAIN output.val.hashes

\* The emitted rules and generated files.
EmittedTargets == {L \in DOMAIN output.val.hashes : L \in DOMAIN results}

\* C18 as stated: dep_edges has an entry for L iff tracking is on and L is an
\* emitted rule or generated file; the entry of a generated file is the list
\* of its generating rule.
C18_DepEdgesIffTracked ==
    pc = "done" =>
        /\ DOMAIN output.val.dep_edges
               = (IF config.track_dep_edges THEN EmittedTargets ELSE {})
        /\ \A g \in GeneratedTargets :
               g.name \in DOMAIN output.val.dep_edges =>
                   output.val.dep_edges[g.name] = Some(<<g.generating_rule>>)

\* The single-source scenario: //a:x.txt alone, a/x.txt holding 'hello', an
\* empty seed, no overlay, no modified-files list, no kinds and no filter.
SingleSourceScenario ==
    /\ graph = SingleSourceGraph
    /\ IsFile(fs, FileOfLabel(SrcX))
    /\ fs[FileOfLabel(SrcX)].data = <<"hello">>
    /\ config.seed_hash = <<>>
    /\ config.content_hashes = None
    /\ config.modified_filepaths = {}
    /\ ~config.include_target_type
    /\ config.target_types = None

\* hex(H(H('hello' || 0x01 || seed || '//a:x.txt') || ''))
ScenarioHash(seed) == HexEncode(Sha256(Sha256(<<"hello">> \o Byte01 \o seed \o SrcX) \o <<>>))

\* C19 as stated: the output of the scenario is the hash with the empty seed
\* between the 0x01 byte and the label.
C19_EmptySeedBetween ==
    (SingleSourceScenario /\ pc = "done") =>
        output.val.hashes = (SrcX :> (ScenarioHash(<<>>) \o <<"~">> \o ScenarioHash(<<>>)))

\* C19, amended: the output of the scenario is the hash with the per-source
\* seed H('//a:x.txt') between the 0x01 byte and the label, and no dep edges.
C19_PerSourceSeedBetween ==
    (SingleSourceScenario /\ pc = "done") =>
        /\ output.val.hashes
               = (SrcX :> (ScenarioHash(Sha256(SrcX)) \o <<"~">> \o ScenarioHash(Sha256(SrcX))))
        /\ output.val.dep_edges = EmptyMap

\* The scenario has run to its output.
C19_Witness == SingleSourceScenario /\ pc = "done" /\ output.ok

-----------------------------------------------------------------------------
(* Properties of the parser and of the generate-hashes command             *)

\* The kind of a string: what stands before its first '#', if there is one.
KindPart(s) == IF Find(s, "#") = 0 THEN None ELSE Some(SubSeq(s, 1, Find(s, "#") - 1))

\* What stands after the first '#', the whole string if there is none.
HashPart(s) == SubSeq(s, Find(s, "#") + 1, Len(s))

\* The string matches (kind '#')? transitive ('~' direct)? with every part
\* that is present non-empty, split at the first '#' and then the first '~'.
MatchesGrammar(s) ==
    /\ KindPart(s) # Some(<<>>)
    /\ IF Find(HashPart(s), "~") = 0 THEN HashPart(s) # <<>>
       ELSE /\ Find(HashPart(s), "~") > 1
            /\ Find(HashPart(s), "~") < Len(HashPart(s))

\* C15 as stated: TargetHash::parse accepts a string only when it matches the
\* grammar; a string with an empty kind, an empty transitive part or an empty
\* direct part is rejected.
C15_AcceptsOnlyGrammar ==
    parsed.ok => MatchesGrammar(raw_hash)

\* C20 as stated: when the command exits with an error nothing of the hash
\* map and nothing of the dep-edges file has been written, and output is
\* written only after compute has returned its result.
C20_FailedRunWritesNothing ==
    /\ exit_status = Some(1) => (out_file = None /\ dep_file = None)
    /\ (out_file # None \/ dep_file # None) => output.ok
-----------------------------------------------------------------------------
(* Properties of the rule-input functions called on their own              *)

Returned(fn) == pc = "returned" /\ call.fn = fn

\* The labels '//...', '@//...' and '@@//...'.
MainRepoLabel(l) ==
    \/ StartsWith(l, SlashSlash)
    \/ StartsWith(l, <<"@">> \o SlashSlash)
    \/ StartsWith(l, <<"@", "@">> \o SlashSlash)

\* What the label '@..@R//X' is to become under the fine-grained set F.
TransformedExternal(R, X, F) ==
    IF R \in F /\ R[Len(R)] = "+" THEN <<"@", "@">> \o R \o SlashSlash \o X
    ELSE IF R \in F THEN <<"@", "@">> \o R \o <<"+">> \o SlashSlash \o X
    ELSE <<"/", "/", "external", ":">> \o R

\* C21: transform_rule_input returns a main-repo label ('//...', '@//...',
\* '@@//...') unchanged; an external label with leading '@'s, repository R and
\* remainder X becomes '@@R//X' if R is in the fine-grained set and ends with
\* '+', '@@R+//X' if R is in the set and does not end with '+', and
\* '//external:R' if R is not in the set.
C21_TransformRuleInput ==
    Returned("transform_rule_input") =>
        /\ MainRepoLabel(call.input) => ret = call.input
        /\ \A at \in AtPrefixes \ {<<>>}, R \in LabelRepos \ {<<>>}, X \in LabelRemainders :
               call.input = at \o R \o SlashSlash \o X
                   => ret = TransformedExternal(R, X, call.fine_grained)

\* A canonical repository of the fine-grained set has been transformed.
C21_Witness ==
    /\ Returned("transform_rule_input")
    /\ call.input = <<"@", "r", "+">> \o SlashSlash \o <<"p", ":", "l">>
    /\ <<"r", "+">> \in call.fine_grained
    /\ ret = <<"@", "@", "r", "+">> \o SlashSlash \o <<"p", ":", "l">>

\* The positions of s that hold a value no earlier position holds.
FirstPositions(s) == {i \in 1..Len(s) : \A j \in 1..(i - 1) : s[j] # s[i]}

\* s without the later occurrences of its values.
FirstOccurrences(s) ==
    [k \in 1..Cardinality(FirstPositions(s)) |->
        s[CHOOSE i \in FirstPositions(s) :
              Cardinality({j \in FirstPositions(s) : j <= i}) = k]]

\* The raw inputs of a rule, each transformed.
TransformedRaw(rule, fine_grained_repos) ==
    [i \in 1..Len(rule.rule_inputs) |->
        TransformRuleInput(rule.rule_inputs[i], fine_grained_repos)]

\* C23: in cquery mode the effective inputs of a rule are its
\* configured_rule_inputs followed by the transformed raw rule_inputs, each
\* value kept at its first occurrence only, so the list has no duplicates; in
\* query mode they are the raw rule_inputs unchanged, duplicates included.
C23_EffectiveInputList ==
    Returned("rule_inputs") =>
        IF call.use_cquery
        THEN /\ ret = FirstOccurrences(call.rule.configured_rule_inputs
                          \o TransformedRaw(call.rule, call.fine_grained_repos))
             /\ \A i, j \in 1..Len(ret) : ret[i] = ret[j] => i = j
        ELSE ret = call.rule.rule_inputs

\* A repeated configured input and a raw input that is transformed into it
\* have been merged into one entry, ahead of a raw input of the main
\* repository.
C23_Witness ==
    /\ Returned("rule_inputs")
    /\ call.use_cquery
    /\ call.rule.configured_rule_inputs
           = <<<<"@", "@", "r", "+">> \o SlashSlash \o <<":", "l">>,
               <<"@", "@", "r", "+">> \o SlashSlash \o <<":", "l">>>>
    /\ call.rule.rule_inputs = <<<<"@", "r">> \o SlashSlash \o <<":", "l">>, RuleB>>
    /\ ret = <<<<"@", "@", "r", "+">> \o SlashSlash \o <<":", "l">>, RuleB>>

-----------------------------------------------------------------------------
(* Properties of the source-file hasher called on its own                  *)

PathOfF == PathJoin(OutputBase, PathFrom(<<"external", "/", "r", "/", "f">>))

\* The key of the overlay and the file of the labels the hasher resolves.
SourcePath(l) ==
    IF l = ExtF THEN [rel |-> <<"external", "/", "r", "/", "f">>, abs |-> PathOfF]
    ELSE [rel |-> <<"a", "/", "s">>, abs |-> PathOfS]

\* The call is for a label of the main repository, or for a file of the
\* fine-grained repository r whose directory the resolver finds without the
\* locate query failing to start.
ResolvedCall ==
    /\ Returned("digest")
    /\ \/ call.label \in {SrcS, AliasS}
       \/ /\ call.label = ExtF
          /\ <<"r">> \in call.cfg.fine_grained_external_repos
          /\ \/ PathJoin(OutputBase, PathFrom(<<"external", "/", "r">>)) \in DOMAIN call.files
             \/ call.cfg.resolver.query = EmptyMap

OverlayEntry ==
    /\ call.cfg.content_hashes # None
    /\ SourcePath(call.label).rel \in DOMAIN Unwrap(call.cfg.content_hashes)

\* The modified-files list names the file, relative to the workspace or as
\* an absolute path.
ListedAsModified ==
    \E p \in call.cfg.modified_filepaths :
        PathJoin(Workspace, p) = SourcePath(call.label).abs

RegularFile(path) == path \in DOMAIN call.files /\ call.files[path].kind = "file"

\* C25: without an overlay entry for the file, the digest of a regular file
\* that a non-empty modified-files list leaves out is H(0x01 || seed || label)
\* whatever the file holds and whether or not it can be read; with an empty
\* list or a list that names the file the digest of a readable regular file is
\* H(bytes || 0x01 || seed || label); the digest of a path that does not exist
\* is H(0x00 || seed || label).
C25_ModifiedFilesMask ==
    (ResolvedCall /\ ~OverlayEntry) =>
        /\ (RegularFile(SourcePath(call.label).abs)
              /\ call.cfg.modified_filepaths # {} /\ ~ListedAsModified)
               => ret = Ok(Sha256(Byte01 \o call.seed \o call.label))
        /\ (RegularFile(SourcePath(call.label).abs)
              /\ call.files[SourcePath(call.label).abs].readable
              /\ (call.cfg.modified_filepaths = {} \/ ListedAsModified))
               => ret = Ok(Sha256(call.files[SourcePath(call.label).abs].data
                                      \o Byte01 \o call.seed \o call.label))
        /\ SourcePath(call.label).abs \notin DOMAIN call.files
               => ret = Ok(Sha256(Byte00 \o call.seed \o call.label))

\* The file a/s holds 's2' and the list names another file only.
C25_Witness ==
    /\ ResolvedCall /\ ~OverlayEntry
    /\ call.label = SrcS
    /\ call.seed = <<"sd">>
    /\ RegularFile(PathOfS) /\ call.files[PathOfS].data = <<"s2">>
    /\ call.cfg.modified_filepaths = {PathFrom(<<"b", "/", "t">>)}
    /\ ret = Ok(Sha256(Byte01 \o <<"sd">> \o SrcS))

\* C26: with an overlay entry for the workspace-relative path of a label the
\* hasher resolves, the digest is H(overlay value || 0x01 || seed || label),
\* whether the file exists, whatever it holds, whether it can be read, and
\* whatever the modified-files list holds.
C26_OverlayEntryDigest ==
    (ResolvedCall /\ OverlayEntry) =>
        ret = Ok(Sha256(Unwrap(call.cfg.content_hashes)[SourcePath(call.label).rel]
                            \o Byte01 \o call.seed \o call.label))

\* The file of the overlay entry does not exist and the modified-files list
\* names another file.
C26_Witness ==
    /\ ResolvedCall /\ OverlayEntry
    /\ call.label = SrcS
    /\ PathOfS \notin DOMAIN call.files
    /\ call.cfg.modified_filepaths = {PathFrom(<<"b", "/", "t">>)}
    /\ ret = Ok(Sha256(<<"ov">> \o Byte01 \o call.seed \o SrcS))

-----------------------------------------------------------------------------
(* Properties of the digests of one run                                    *)

RECURSIVE DepOveralls(_, _, _)
\* The overall digests of the rules other than L that the inputs name from
\* input i on, one per occurrence, concatenated in the order of the inputs.
DepOveralls(L, inputs, i) ==
    IF i > Len(inputs) THEN <<>>
    ELSE (IF inputs[i] \in RuleNames /\ inputs[i] # L
          THEN rule_digests[inputs[i]].overall ELSE <<>>)
             \o DepOveralls(L, inputs, i + 1)

\* The rules a finished run has emitted.
EmittedRules == {L \in DOMAIN output.val.hashes : L \in RuleNames}

\* The emitted hash of L is the rendering of the given digests.
EmittedAs(L, overall, direct) ==
    /\ OverallIn(output.val.hashes, L) = HexEncode(overall)
    /\ DirectIn(output.val.hashes, L) = HexEncode(direct)

\* C22 as stated: the emitted overall digest of a rule is
\* H(direct || H(concatenation of the overall digests of its rule
\* dependencies)), direct being the finalized direct digest of the rule.
C22_OverallDirectThenDeps ==
    pc = "done" =>
        \A L \in EmittedRules :
            EmittedAs(L,
                      Sha256(rule_digests[L].direct
                                 \o Sha256(DepOveralls(L, EffectiveInputs(L), 1))),
                      rule_digests[L].direct)

\* C22: the emitted overall digest of a rule is H(D || direct), where D is the
\* concatenation of the overall digests of the other rules its effective
\* inputs name, one per occurrence and in input order, and direct is the
\* finalized direct digest of the rule.
C22_OverallDepsThenDirect ==
    pc = "done" =>
        \A L \in EmittedRules :
            EmittedAs(L,
                      Sha256(DepOveralls(L, EffectiveInputs(L), 1)
                                 \o rule_digests[L].direct),
                      rule_digests[L].direct)

\* A rule with two different rule dependencies has been emitted.
C22_Witness ==
    /\ pc = "done"
    /\ RuleA \in EmittedRules
    /\ EffectiveInputs(RuleA) = <<RuleC, RuleB>>
    /\ rule_digests[RuleB].overall # rule_digests[RuleC].overall


RECURSIVE FedIntoDirect(_, _)
\* The bytes the inputs from input i on add to `direct`: the label, and
\* the source digest of a label that is no rule and has one.
FedIntoDirect(inputs, i) ==
    IF i > Len(inputs) THEN <<>>
    ELSE inputs[i]
             \o (IF inputs[i] \notin RuleNames /\ inputs[i] \in DOMAIN source_digests
                 THEN source_digests[inputs[i]] ELSE <<>>)
             \o FedIntoDirect(inputs, i + 1)

\* The inputs of L that start with '@' and name neither a rule nor a source
\* of the graph.
UnknownExternalInputs(L) ==
    {x \in Range(EffectiveInputs(L)) :
        StartsWith(x, <<"@">>) /\ x \notin RuleNames /\ x \notin SourceNames}

\* C24: an input that starts with '@' and names neither a rule nor a source of
\* the graph never gets an entry in the source-digest cache, seed-mixed or
\* not, and adds nothing but its label to the direct hash of the rule: the
\* direct hash is the hash of the rule digest, the seed hash, and each input
\* label followed by the cached source digest of that label if it has one.
C24_NoSoftDigestForExternal ==
    pc \in {"targets", "emit", "done"} =>
        \A L \in DOMAIN rule_digests :
            /\ \A x \in UnknownExternalInputs(L) : x \notin DOMAIN source_digests
            /\ rule_digests[L].direct
                   = Sha256(BazelRuleDigest(graph.rule_map[L], config.ignored_attrs)
                                \o config.seed_hash
                                \o FedIntoDirect(EffectiveInputs(L), 1))

\* RuleA has been hashed with a canonical label of a fine-grained repository
\* whose file exists and with a workspace file under its plain name: only the
\* second has a cached digest.
C24_Witness ==
    /\ pc = "done"
    /\ config.seed_hash # <<>>
    /\ <<"r">> \in config.fine_grained_external_repos
    /\ EffectiveInputs(RuleA) = <<CanonU, FileU>>
    /\ FileU \in DOMAIN source_digests
    /\ CanonU \notin DOMAIN source_digests

-----------------------------------------------------------------------------
(* Properties of the external-repository resolver called on its own        *)

\* The directory <output_base>/external/<name>.
ExternalDir(name) == PathJoin(ExternalRoot, <<name>>)

\* The outcome of the locate query of the call.
Located == call.resolver.query[call.repo]

\* The locate query has printed a path below the external root.
LocatedBelowRoot ==
    /\ Located.spawned /\ Located.success /\ Located.stdout # None
    /\ Unwrap(Located.stdout) \in {LineBelowRoot, BareLineBelowRoot}

\* The first component of that path below the external root.
LocatedRepo == IF Unwrap(Located.stdout) = LineBelowRoot THEN <<"x", "+">> ELSE <<"x">>

\* C27 as stated: resolve returns <output_base>/external/<repo> if it exists,
\* else <output_base>/external/<repo>+ if it exists, else the directory the
\* locate query leads to; when the query cannot be started, exits non-zero or
\* prints nothing usable, resolve does not fail and returns
\* <output_base>/external/<repo>.
C27_ResolveFallsThrough ==
    Returned("resolve") =>
        ret = Ok(IF ExternalDir(call.repo) \in DOMAIN call.files
                 THEN ExternalDir(call.repo)
                 ELSE IF ExternalDir(call.repo \o <<"+">>) \in DOMAIN call.files
                 THEN ExternalDir(call.repo \o <<"+">>)
                 ELSE IF LocatedBelowRoot THEN ExternalDir(LocatedRepo)
                 ELSE ExternalDir(call.repo))

-----------------------------------------------------------------------------
(* Properties of the list loaders called on their own                      *)

RECURSIVE Unlines(_)
\* The lines written back, each with its newline.
Unlines(lines) ==
    IF lines = <<>> THEN <<>> ELSE Head(lines) \o <<"\n">> \o Unlines(Tail(lines))

NonBlank(line) == Trim(line) # <<>>

\* The text without its blank lines.
WithoutBlankLines(text) == Unlines(SelectSeq(Lines(text), NonBlank))

\* The file system of the call with the blank lines of the list removed.
FilesWithoutBlankLines ==
    [call.files EXCEPT ![Unwrap(call.path)].data = WithoutBlankLines(@)]

\* C28 as stated: a seed list with blank lines yields the seed hash of the same
\* list without the blank lines, and does not fail where that list loads.
C28_BlankSeedLinesIgnored ==
    (Returned("compute_seed_hash") /\ call.path # None
        /\ Unwrap(call.path) \in DOMAIN call.files)
        => ret = ComputeSeedHash(FilesWithoutBlankLines, call.path)

-----------------------------------------------------------------------------
(* Properties of the two caches of one run                                 *)

\* Every key of the two caches has been inserted exactly once.
InsertedOnce ==
    /\ \A k \in DOMAIN writes : writes[k] = 1
    /\ DOMAIN writes = {<<"rule_digests", l>> : l \in DOMAIN rule_digests}
                           \cup {<<"source_digests", l>> : l \in DOMAIN source_digests}

\* A step of the run leaves the entries of the two caches as they are.
KeepsEntries ==
    /\ \A l \in DOMAIN rule_digests :
           l \in DOMAIN rule_digests' /\ rule_digests'[l] = rule_digests[l]
    /\ \A l \in DOMAIN source_digests :
           l \in DOMAIN source_digests' /\ source_digests'[l] = source_digests[l]

\* C29: during one run of compute no step replaces or removes an entry of the
\* rule-digest memo or of the source-digest map, and every key of either cache
\* is inserted once only: the rule hasher inserts a source digest only for a
\* label without entry, and evaluates the digest body of a rule once, later
\* requests being answered from the memo.
C29_CachesWriteOnce == [](InsertedOnce) /\ [][KeepsEntries]_vars

\* RuleA and RuleB have both been hashed with the rule RuleC and the file a/u
\* among their inputs.
C29_Witness ==
    /\ pc = "done"
    /\ EffectiveInputs(RuleA) = <<RuleC, FileU>>
    /\ EffectiveInputs(RuleB) = <<RuleC, FileU>>
    /\ writes[<<"rule_digests", RuleC>>] = 1
    /\ writes[<<"source_digests", FileU>>] = 1


-----------------------------------------------------------------------------
(* Properties of the distances of a type-filtered run                      *)

\* The changed labels the type filter removed from the impacted list.
FilteredOut == ChangedSet \ ImpactedSet

\* An indirectly impacted label of the filtered list that has changed
\* dependencies, all of them removed by the type filter.
C30Stranded(l) ==
    /\ l \in IndirectSet
    /\ DepsOf(l) \cap ChangedSet # {}
    /\ DepsOf(l) \cap ChangedSet \subseteq FilteredOut

\* C30: in get_impacted_targets with a type filter and dep edges, distances
\* are computed over the filtered impacted list only.  Only the labels of the
\* filtered list are classified; an indirect label all of whose changed
\* dependencies were removed by the filter makes the operation fail; and on
\* success the distance list has one record per label of the filtered list,
\* in the same order, the distance of an indirect label being taken over its
\* dependencies in the filtered list alone.
C30_DistancesOverFilteredList ==
    (DistancesRan /\ target_types # None) =>
        /\ DOMAIN kind_by_label = ImpactedSet
        /\ FilteredOut \cap DOMAIN kind_by_label = {}
        /\ (\E l \in ImpactedSet : C30Stranded(l)) => (~distances.ok /\ pc = "failed")
        /\ distances.ok =>
               /\ pc = "done"
               /\ Len(distances.val) = Len(impacted.val)
               /\ \A i \in 1..Len(impacted.val) : distances.val[i].label = impacted.val[i]
               /\ \A l \in IndirectSet :
                      DistanceOf(l).target_distance =
                          1 + SetMin({DistanceOf(d).target_distance :
                                         d \in DepsOf(l) \cap ImpactedSet})

\* A filtered run with dep edges fails on an indirect label whose only changed
\* dependency is directly changed but of a kind the filter removes.
C30_Witness ==
    /\ DistancesRan /\ target_types # None /\ pc = "failed"
    /\ distances.err = "no impacted dependencies"
    /\ \E l \in ImpactedSet :
           /\ C30Stranded(l)
           /\ \E d \in DepsOf(l) \cap FilteredOut : C3DirectCondition(d)
====
